---- MODULE Spec2Model ----
(***************************************************************************)
(* Model of the domain record codec of electrum/names.py:                 *)
(*   get_domain_records  (decode: name value -> records, residual)        *)
(*   add_domain_record   (encode: one record into an accumulator)         *)
(*                                                                         *)
(* JSON values are tagged records, so that values of different Python     *)
(* types can be compared:                                                 *)
(*   [t |-> "null"], [t |-> "bool", v |-> b], [t |-> "int", v |-> n],     *)
(*   [t |-> "str", v |-> s], [t |-> "list", v |-> <<...>>],               *)
(*   [t |-> "dict", v |-> << [k |-> key, v |-> value], ... >>]            *)
(* A dict keeps its items in insertion order, as a Python dict does.      *)
(* Inputs that are not yet parsed are [t |-> "bytes", v |-> <<codes>>]    *)
(* and [t |-> "text", v |-> string].                                      *)
(***************************************************************************)
EXTENDS Integers, Sequences, FiniteSets, TLC

VARIABLES
    pc,        \* "start", "decoded", "raised", "encoding", "failed"
    domain,    \* the domain of the decode, the base domain of the encode
    value,     \* the caller's object that is passed to get_domain_records
    orig,      \* history: value as it was before the call
    records,   \* the records get_domain_records returned
    residual,  \* the value get_domain_records returned
    acc,       \* the accumulator of add_domain_record
    err,       \* the message of the exception of the last call, or ""
    pending,   \* the decoded records that are still to be encoded
    added,     \* history: the records of the calls that returned normally
    last,      \* history: the record of the last add_domain_record call
    name_op,   \* the name operation: None or {"op", "name", "value"}
    script,    \* the hex text name_op_to_script returned
    tx_script, \* the bytes of an output script
    split,     \* what split_name_script returned
    namespace  \* what identifier_to_namespace returned

codecvars == <<domain, value, orig, records, residual, acc, pending, added, last>>
opvars == <<name_op, script, tx_script, split, namespace>>
vars == <<pc, err, codecvars, opvars>>

----------------------------------------------------------------------------
(* JSON values *)

Null == [t |-> "null"]
JBool(b) == [t |-> "bool", v |-> b]
JInt(n) == [t |-> "int", v |-> n]
JStr(s) == [t |-> "str", v |-> s]
JList(s) == [t |-> "list", v |-> s]
JDict(items) == [t |-> "dict", v |-> items]
Item(k, x) == [k |-> k, v |-> x]
EmptyDict == JDict(<<>>)
EmptyList == JList(<<>>)

\* key in d
Has(d, k) == \E i \in 1..Len(d.v) : d.v[i].k = k
IndexOf(d, k) == CHOOSE i \in 1..Len(d.v) : d.v[i].k = k
\* d[key]
Get(d, k) == d.v[IndexOf(d, k)].v
\* d[key] = x : an existing key keeps its position, a new key goes last
Put(d, k, x) ==
    IF Has(d, k) THEN [d EXCEPT !.v[IndexOf(d, k)].v = x]
    ELSE [d EXCEPT !.v = Append(@, Item(k, x))]
\* del d[key]
Del(d, k) == [d EXCEPT !.v = SelectSeq(@, LAMBDA p : p.k # k)]
Keys(d) == {d.v[i].k : i \in 1..Len(d.v)}

\* Python's == on numbers: True == 1 and False == 0
NumOf(x) == IF x.t = "bool" THEN (IF x.v THEN 1 ELSE 0) ELSE x.v
IsNum(x) == x.t \in {"bool", "int"}
RECURSIVE PyEq(_, _)
PyEq(a, b) ==
    IF IsNum(a) /\ IsNum(b) THEN NumOf(a) = NumOf(b)
    ELSE IF a.t # b.t THEN FALSE
    ELSE IF a.t = "list"
      THEN Len(a.v) = Len(b.v) /\ \A i \in 1..Len(a.v) : PyEq(a.v[i], b.v[i])
    ELSE IF a.t = "dict"
      THEN Len(a.v) = Len(b.v)
           /\ \A i \in 1..Len(a.v) :
                 Has(b, a.v[i].k) /\ PyEq(a.v[i].v, Get(b, a.v[i].k))
    ELSE a = b

----------------------------------------------------------------------------
(* String helpers (Python str methods) *)

StartsWith(s, p) == Len(s) >= Len(p) /\ SubSeq(s, 1, Len(p)) = p
EndsWith(s, p) == Len(s) >= Len(p) /\ SubSeq(s, Len(s) - Len(p) + 1, Len(s)) = p

\* s.split(".") : the list of the pieces between the dots (never empty)
RECURSIVE SplitFrom(_, _, _)
SplitFrom(s, start, i) ==
    IF i > Len(s) THEN << SubSeq(s, start, Len(s)) >>
    ELSE IF SubSeq(s, i, i) = "."
      THEN << SubSeq(s, start, i - 1) >> \o SplitFrom(s, i + 1, i + 1)
    ELSE SplitFrom(s, start, i + 1)
Split(s) == SplitFrom(s, 1, 1)

Reverse(s) == [i \in 1..Len(s) |-> s[Len(s) + 1 - i]]

----------------------------------------------------------------------------
(* Decode: get_domain_records and its sub-decoders.  Each returns          *)
(* [records, remaining, exc], where exc is the exception that left the     *)
(* function ("" when it returned); a per-item decoder returns              *)
(* [record, remaining], where NoRecord stands for a record of None and     *)
(* Null for a remaining of None.                                           *)

NoRecord == << >>
Rec(d, type, data) == << d, type, data >>
Result(recs, rem) == [records |-> recs, remaining |-> rem, exc |-> ""]
Raised(e) == [records |-> << >>, remaining |-> Null, exc |-> e]
Single(rec, rem) == [record |-> rec, remaining |-> rem]

AddressData(kind, v) == JList(<< JStr(kind), v >>)

get_domain_records_address_ip4_single(d, v) ==
    IF v.t # "str" THEN Single(NoRecord, v)
    ELSE Single(Rec(d, "address", AddressData("ip4", v)), Null)

get_domain_records_address_ip6_single(d, v) ==
    IF v.t # "str" THEN Single(NoRecord, v)
    ELSE Single(Rec(d, "address", AddressData("ip6", v)), Null)

get_domain_records_address_tor_single(d, v) ==
    IF v.t # "str" THEN Single(NoRecord, v)
    ELSE Single(Rec(d, "address", AddressData("tor", v)), Null)

get_domain_records_address_i2p_single(d, v) ==
    IF v.t # "str" THEN Single(NoRecord, v)
    ELSE Single(Rec(d, "address", AddressData("i2p", v)), Null)

get_domain_records_ns_single(d, v) ==
    IF v.t # "str" THEN Single(NoRecord, v)
    ELSE Single(Rec(d, "ns", v), Null)

get_domain_records_ds_single(d, v) ==
    IF v.t # "list" THEN Single(NoRecord, v)
    ELSE IF Len(v.v) # 4 THEN Single(NoRecord, v)
    ELSE IF v.v[1].t # "int" \/ v.v[2].t # "int" \/ v.v[3].t # "int" \/ v.v[4].t # "str"
      THEN Single(NoRecord, v)
    ELSE Single(Rec(d, "ds", v), Null)

get_domain_records_tls_single(d, v) ==
    LET w == IF v.t = "list" THEN JDict(<< Item("dane", v) >>) ELSE v
    IN IF w.t # "dict" THEN Single(NoRecord, w)
       ELSE IF Len(w.v) # 1 THEN Single(NoRecord, w)
       ELSE IF ~Has(w, "dane") THEN Single(NoRecord, w)
       ELSE LET cert == Get(w, "dane")
            IN IF cert.t # "list" THEN Single(NoRecord, w)
               ELSE IF Len(cert.v) # 4 THEN Single(NoRecord, w)
               ELSE IF ~PyEq(JList(SubSeq(cert.v, 1, 3)), JList(<< JInt(2), JInt(1), JInt(0) >>))
                 THEN Single(NoRecord, w)
               ELSE IF cert.v[4].t # "str" THEN Single(NoRecord, w)
               ELSE Single(Rec(d, "tls", cert.v[4]), Null)

get_domain_records_sshfp_single(d, v) ==
    IF v.t # "list" THEN Single(NoRecord, v)
    ELSE IF Len(v.v) # 3 THEN Single(NoRecord, v)
    ELSE IF v.v[1].t # "int" \/ v.v[2].t # "int" \/ v.v[3].t # "str"
      THEN Single(NoRecord, v)
    ELSE Single(Rec(d, "sshfp", v), Null)

get_domain_records_txt_single(d, v) ==
    IF v.t # "str" THEN Single(NoRecord, v)
    ELSE Single(Rec(d, "txt", v), Null)

get_domain_records_srv_single(d, v) ==
    IF v.t # "list" THEN Single(NoRecord, v)
    ELSE IF Len(v.v) # 4 THEN Single(NoRecord, v)
    ELSE IF v.v[1].t # "int" \/ v.v[2].t # "int" \/ v.v[3].t # "int" \/ v.v[4].t # "str"
      THEN Single(NoRecord, v)
    ELSE Single(Rec(d, "srv", v), Null)

get_domain_records_import_single(d, v) ==
    LET w == IF v.t = "str" THEN JList(<< v >>) ELSE v
    IN IF w.t # "list" THEN Single(NoRecord, w)
       ELSE IF Len(w.v) < 1 THEN Single(NoRecord, w)
       ELSE IF w.v[1].t # "str" THEN Single(NoRecord, w)
       ELSE IF Len(w.v) > 2 THEN Single(NoRecord, w)
       ELSE LET full == IF Len(w.v) < 2 THEN JList(Append(w.v, JStr(""))) ELSE w
            IN Single(Rec(d, "import", full), Null)

\* the per-item decoder that a list decoder calls in its loop
decode_single(kind, d, v) ==
    IF kind = "ip4" THEN get_domain_records_address_ip4_single(d, v)
    ELSE IF kind = "ip6" THEN get_domain_records_address_ip6_single(d, v)
    ELSE IF kind = "tor" THEN get_domain_records_address_tor_single(d, v)
    ELSE IF kind = "i2p" THEN get_domain_records_address_i2p_single(d, v)
    ELSE IF kind = "ns" THEN get_domain_records_ns_single(d, v)
    ELSE IF kind = "ds" THEN get_domain_records_ds_single(d, v)
    ELSE IF kind = "tls" THEN get_domain_records_tls_single(d, v)
    ELSE IF kind = "sshfp" THEN get_domain_records_sshfp_single(d, v)
    ELSE IF kind = "txt" THEN get_domain_records_txt_single(d, v)
    ELSE IF kind = "srv" THEN get_domain_records_srv_single(d, v)
    ELSE get_domain_records_import_single(d, v)

\* the loop "for raw_address in value: ..." shared by the list decoders
\* one turn of that loop: "if single_remaining is not None: append" and
\* "if single_record is not None: append"
collect(s, rest) ==
    Result((IF s.record # NoRecord THEN << s.record >> ELSE << >>) \o rest.records,
           (IF s.remaining # Null THEN << s.remaining >> ELSE << >>) \o rest.remaining)

RECURSIVE parse_items(_, _, _, _)
parse_items(d, items, kind, i) ==
    IF i > Len(items) THEN Result(<< >>, << >>)
    ELSE collect(decode_single(kind, d, items[i]), parse_items(d, items, kind, i + 1))

\* "return records, remaining" with the remaining entries as a list
list_result(r) == Result(r.records, JList(r.remaining))

\* string-or-list decoders: a bare string is promoted to a one-element list
parse_str_list(d, v, kind) ==
    LET lst == IF v.t = "str" THEN JList(<< v >>) ELSE v
    IN IF lst.t # "list" THEN Result(<< >>, lst)
       ELSE list_result(parse_items(d, lst.v, kind, 1))

\* list-only decoders
parse_list(d, v, kind) ==
    IF v.t # "list" THEN Result(<< >>, v)
    ELSE list_result(parse_items(d, v.v, kind, 1))


get_domain_records_address_ip4(d, v) ==
    parse_str_list(d, v, "ip4")

get_domain_records_address_ip6(d, v) ==
    parse_str_list(d, v, "ip6")

get_domain_records_address_tor(d, v) ==
    parse_str_list(d, v, "tor")

get_domain_records_address_i2p(d, v) ==
    parse_str_list(d, v, "i2p")

get_domain_records_address_freenet(d, v) ==
    IF v.t # "str" THEN Result(<< >>, v)
    ELSE Result(<< Rec(d, "address", AddressData("freenet", v)) >>, Null)

\* mutant: the empty key is left alone and yields no record
RECURSIVE zeronet_items_skip_empty(_, _, _)
zeronet_items_skip_empty(d, items, i) ==
    IF i > Len(items) THEN [ok |-> TRUE, records |-> << >>]
    ELSE IF items[i].v.t # "str" THEN [ok |-> FALSE, records |-> << >>]
    ELSE LET rest == zeronet_items_skip_empty(d, items, i + 1)
         IN [ok |-> rest.ok,
             records |-> (IF items[i].k = "" THEN << >>
                          ELSE << Rec(items[i].k \o "." \o d, "address",
                                      AddressData("zeronet", items[i].v)) >>)
                         \o rest.records]

\* the old-style dict form: the loop over the labels, which bails out
\* (None) at the first value that is no string
RECURSIVE zeronet_items(_, _, _)
zeronet_items(d, items, i) ==
    IF i > Len(items) THEN [ok |-> TRUE, records |-> << >>]
    ELSE IF items[i].v.t # "str" THEN [ok |-> FALSE, records |-> << >>]
    ELSE LET single_domain == IF items[i].k = "" THEN d ELSE items[i].k \o "." \o d
             rest == zeronet_items(d, items, i + 1)
         IN [ok |-> rest.ok,
             records |-> << Rec(single_domain, "address", AddressData("zeronet", items[i].v)) >>
                         \o rest.records]

get_domain_records_address_zeronet(d, v) ==
    IF v.t = "str"
      THEN Result(<< Rec(d, "address", AddressData("zeronet", v)) >>, Null)
    ELSE IF v.t = "dict"
      THEN LET r == zeronet_items(d, v.v, 1)
           IN IF r.ok THEN Result(r.records, Null) ELSE Result(<< >>, v)
    ELSE Result(<< >>, Null)

get_domain_records_cname(d, v) ==
    IF v.t # "str" THEN Result(<< >>, v)
    ELSE Result(<< Rec(d, "cname", v) >>, Null)

get_domain_records_ns(d, v) ==
    parse_str_list(d, v, "ns")

get_domain_records_ds(d, v) ==
    parse_list(d, v, "ds")


\* mutant: the ValueError of the unpacking is not caught
get_domain_records_tls_uncaught(d, v) ==
    LET parts == Split(d)
    IN IF Len(parts) # 3 THEN Raised("ValueError")
       ELSE IF parts[1] # "*" THEN Result(<< >>, v)
       ELSE parse_list(parts[2] \o "." \o parts[3], v, "tls")

\* "wildcard, sld, tld = domain.split(".")" raises ValueError unless there
\* are three labels; the except clause turns it into ([], value)
get_domain_records_tls(d, v) ==
    LET parts == Split(d)
    IN IF Len(parts) # 3 THEN Result(<< >>, v)
       ELSE IF parts[1] # "*" THEN Result(<< >>, v)
       ELSE parse_list(parts[2] \o "." \o parts[3], v, "tls")

get_domain_records_sshfp(d, v) ==
    parse_list(d, v, "sshfp")

get_domain_records_txt(d, v) ==
    IF StartsWith(d, "_tor.")
      THEN get_domain_records_address_tor(SubSeq(d, Len("_tor.") + 1, Len(d)), v)
    ELSE parse_str_list(d, v, "txt")

get_domain_records_srv(d, v) ==
    parse_list(d, v, "srv")

get_domain_records_import(d, v) ==
    parse_str_list(d, v, "import")

\* one "if key in value: ..." block of get_domain_records: run the key's
\* sub-decoder, store what remains under the key, delete the key when what
\* remains equals the key's empty form
DecodeKey(st, key, r, empty) ==
    IF r.exc # "" THEN [st EXCEPT !.exc = r.exc]
    ELSE [records |-> st.records \o r.records,
          value |-> IF r.remaining = empty THEN Del(st.value, key)
                    ELSE Put(st.value, key, r.remaining),
          exc |-> ""]

\* the sub-decoder that get_domain_records calls for a key
RECURSIVE get_domain_records_map(_, _)
decode_key(key, d, x) ==
    IF key = "ip" THEN get_domain_records_address_ip4(d, x)
    ELSE IF key = "ip6" THEN get_domain_records_address_ip6(d, x)
    ELSE IF key = "tor" THEN get_domain_records_address_tor(d, x)
    ELSE IF key = "i2p" THEN get_domain_records_address_i2p(d, x)
    ELSE IF key = "freenet" THEN get_domain_records_address_freenet(d, x)
    ELSE IF key = "zeronet" THEN get_domain_records_address_zeronet(d, x)
    ELSE IF key = "alias" THEN get_domain_records_cname(d, x)
    ELSE IF key = "ns" THEN get_domain_records_ns(d, x)
    ELSE IF key = "ds" THEN get_domain_records_ds(d, x)
    ELSE IF key = "tls" THEN get_domain_records_tls(d, x)
    ELSE IF key = "sshfp" THEN get_domain_records_sshfp(d, x)
    ELSE IF key = "txt" THEN get_domain_records_txt(d, x)
    ELSE IF key = "srv" THEN get_domain_records_srv(d, x)
    ELSE IF key = "import" THEN get_domain_records_import(d, x)
    ELSE get_domain_records_map(d, x)

\* the form of "nothing remains" that the key's block compares with
empty_of(key) ==
    IF key \in {"freenet", "zeronet", "alias"} THEN Null
    ELSE IF key = "map" THEN EmptyDict
    ELSE EmptyList

\* the "if key in value: ..." blocks for keys, one after the other in the
\* order of keys; an exception ends the call
RECURSIVE DecodeKeys(_, _, _, _)
DecodeKeys(d, st, keys, i) ==
    IF i > Len(keys) \/ st.exc # "" THEN st
    ELSE IF ~Has(st.value, keys[i]) THEN DecodeKeys(d, st, keys, i + 1)
    ELSE DecodeKeys(d,
                    DecodeKey(st, keys[i], decode_key(keys[i], d, Get(st.value, keys[i])),
                              empty_of(keys[i])),
                    keys, i + 1)

\* the order of the blocks in get_domain_records_address
AddressKeys == << "ip", "ip6", "tor", "i2p", "freenet", "zeronet" >>

\* the order of the blocks in get_domain_records after the address keys
OtherKeys == << "alias", "ns", "ds", "tls", "sshfp", "txt", "srv", "import", "map" >>

\* mutant: ip and ip6 are decoded in the order in which the value holds
\* them (ip6 first when it comes first)
get_domain_records_address_value_order(d, v) ==
    DecodeKeys(d, [records |-> << >>, value |-> v, exc |-> ""],
               IF Has(v, "ip") /\ Has(v, "ip6") /\ IndexOf(v, "ip6") < IndexOf(v, "ip")
               THEN << "ip6", "ip", "tor", "i2p", "freenet", "zeronet" >>
               ELSE AddressKeys,
               1)

get_domain_records_address(d, v) ==
    DecodeKeys(d, [records |-> << >>, value |-> v, exc |-> ""], AddressKeys, 1)

----------------------------------------------------------------------------
(* The normalisation preamble: bytes.decode("ascii") and json.loads.       *)
(* A Python str is a JStr; bytes are [t |-> "bytes", v |-> <<codes>>].     *)

JBytes(codes) == [t |-> "bytes", v |-> codes]

\* the characters of the byte codes the model uses
Chr(n) ==
    CASE n = 32 -> " " [] n = 34 -> "\"" [] n = 44 -> "," [] n = 53 -> "5"
      [] n = 58 -> ":" [] n = 91 -> "[" [] n = 93 -> "]" [] n = 97 -> "a"
      [] n = 105 -> "i" [] n = 112 -> "p" [] n = 123 -> "{" [] n = 125 -> "}"
      [] n = 10 -> "\n" [] n = 45 -> "-" [] n = 47 -> "/" [] n = 48 -> "0"
      [] n = 65 -> "A" [] n = 100 -> "d" [] n = 110 -> "n" [] n = 120 -> "x"
      [] OTHER -> "?"

RECURSIVE ChrAll(_)
ChrAll(codes) ==
    IF codes = << >> THEN ""
    ELSE IF Len(codes) = 1 THEN Chr(codes[1])
    ELSE ChrAll(SubSeq(codes, 1, Len(codes) \div 2))
         \o ChrAll(SubSeq(codes, Len(codes) \div 2 + 1, Len(codes)))

\* bytes.decode("ascii"): UnicodeDecodeError for a byte above 127
ascii_decode(b) ==
    IF \E i \in 1..Len(b.v) : b.v[i] > 127 THEN [ok |-> FALSE, v |-> b]
    ELSE [ok |-> TRUE, v |-> JStr(ChrAll(b.v))]

\* json.loads for objects, arrays, strings without escapes, integers and
\* the three literals; ok = FALSE stands for JSONDecodeError
Ch(s, i) == IF i >= 1 /\ i <= Len(s) THEN SubSeq(s, i, i) ELSE ""
At(s, i, w) == i + Len(w) - 1 <= Len(s) /\ SubSeq(s, i, i + Len(w) - 1) = w
Digits == "0123456789"
IsDigit(c) == \E k \in 1..Len(Digits) : SubSeq(Digits, k, k) = c
DigitVal(c) == (CHOOSE k \in 1..Len(Digits) : SubSeq(Digits, k, k) = c) - 1
Parsed(x, n) == [ok |-> TRUE, v |-> x, next |-> n]
ParseFail == [ok |-> FALSE, v |-> Null, next |-> 0]

\* the first position from i on that holds no blank
SkipWs(s, i) == CHOOSE j \in i..(Len(s) + 1) : Ch(s, j) # " " /\ \A k \in i..(j - 1) : Ch(s, k) = " "

RECURSIVE FindQuote(_, _)
FindQuote(s, j) ==
    IF j > Len(s) THEN 0 ELSE IF Ch(s, j) = "\"" THEN j ELSE FindQuote(s, j + 1)

ParseString(s, i) ==
    LET j == FindQuote(s, i + 1)
    IN IF j = 0 THEN ParseFail ELSE Parsed(JStr(SubSeq(s, i + 1, j - 1)), j + 1)

RECURSIVE ParseDigits(_, _, _)
ParseDigits(s, i, n) ==
    IF IsDigit(Ch(s, i)) THEN ParseDigits(s, i + 1, 10 * n + DigitVal(Ch(s, i)))
    ELSE Parsed(JInt(n), i)

ParseNumber(s, i) ==
    LET neg == Ch(s, i) = "-"
        j == IF neg THEN i + 1 ELSE i
        r == IF Ch(s, j) = "0" THEN Parsed(JInt(0), j + 1) ELSE ParseDigits(s, j, 0)
    IN IF ~IsDigit(Ch(s, j)) THEN ParseFail
       ELSE IF neg THEN Parsed(JInt(0 - r.v.v), r.next) ELSE r

RECURSIVE ParseValue(_, _), ParseArray(_, _, _), ParseObject(_, _, _)
ParseValue(s, i) ==
    LET c == Ch(s, i)
    IN IF c = "{"
         THEN IF Ch(s, SkipWs(s, i + 1)) = "}" THEN Parsed(EmptyDict, SkipWs(s, i + 1) + 1)
              ELSE ParseObject(s, SkipWs(s, i + 1), EmptyDict)
       ELSE IF c = "["
         THEN IF Ch(s, SkipWs(s, i + 1)) = "]" THEN Parsed(EmptyList, SkipWs(s, i + 1) + 1)
              ELSE ParseArray(s, SkipWs(s, i + 1), << >>)
       ELSE IF c = "\"" THEN ParseString(s, i)
       ELSE IF c = "-" \/ IsDigit(c) THEN ParseNumber(s, i)
       ELSE IF At(s, i, "true") THEN Parsed(JBool(TRUE), i + 4)
       ELSE IF At(s, i, "false") THEN Parsed(JBool(FALSE), i + 5)
       ELSE IF At(s, i, "null") THEN Parsed(Null, i + 4)
       ELSE ParseFail

\* at the first character of an element
ParseArray(s, i, items) ==
    LET r == ParseValue(s, i)
        j == SkipWs(s, r.next)
    IN IF ~r.ok THEN ParseFail
       ELSE IF Ch(s, j) = "]" THEN Parsed(JList(Append(items, r.v)), j + 1)
       ELSE IF Ch(s, j) = "," THEN ParseArray(s, SkipWs(s, j + 1), Append(items, r.v))
       ELSE ParseFail

\* at the opening quote of a key
ParseObject(s, i, d) ==
    LET k == IF Ch(s, i) = "\"" THEN ParseString(s, i) ELSE ParseFail
        c == SkipWs(s, k.next)
        r == IF k.ok /\ Ch(s, c) = ":" THEN ParseValue(s, SkipWs(s, c + 1)) ELSE ParseFail
        j == SkipWs(s, r.next)
    IN IF ~r.ok THEN ParseFail
       ELSE IF Ch(s, j) = "}" THEN Parsed(Put(d, k.v.v, r.v), j + 1)
       ELSE IF Ch(s, j) = "," THEN ParseObject(s, SkipWs(s, j + 1), Put(d, k.v.v, r.v))
       ELSE ParseFail

json_loads(s) ==
    LET r == ParseValue(s, SkipWs(s, 1))
    IN IF r.ok /\ SkipWs(s, r.next) = Len(s) + 1 THEN [ok |-> TRUE, v |-> r.v]
       ELSE [ok |-> FALSE, v |-> Null]

----------------------------------------------------------------------------
(* get_domain_records and the recursion through "map" *)

RECURSIVE get_domain_records(_, _), map_items(_, _, _, _)

\* the loop "for subdomain in value: ..." of get_domain_records_map;
\* an empty label is skipped by "continue" and so gets no entry in remaining
map_items(d, items, i, remaining) ==
    IF i > Len(items) THEN Result(<< >>, remaining)
    ELSE IF items[i].k = "" THEN map_items(d, items, i + 1, remaining)
    ELSE LET subdomain == items[i].k
             single_domain == subdomain \o "." \o d
             single_value == IF items[i].v.t = "str"
                             THEN JDict(<< Item("ip", items[i].v) >>)
                             ELSE items[i].v
             r == get_domain_records(single_domain, single_value)
             rem == IF r.remaining = EmptyDict THEN Del(remaining, subdomain)
                    ELSE Put(remaining, subdomain, r.remaining)
             rest == map_items(d, items, i + 1, rem)
         IN IF r.exc # "" THEN Raised(r.exc)
            ELSE IF rest.exc # "" THEN Raised(rest.exc)
            ELSE Result(r.records \o rest.records, rest.remaining)

get_domain_records_map(d, v) ==
    IF v.t # "dict" THEN Result(<< >>, v)
    ELSE map_items(d, v.v, 1, EmptyDict)

\* the part of get_domain_records after the preamble, on a dict
dict_result(s) == [records |-> s.records, remaining |-> s.value, exc |-> s.exc]
get_domain_records_dict(d, v) ==
    dict_result(DecodeKeys(d, get_domain_records_address(d, v), OtherKeys, 1))

get_domain_records(d, v) ==
    LET dec == IF v.t = "bytes" THEN ascii_decode(v) ELSE [ok |-> TRUE, v |-> v]
        text == IF dec.v.t = "str" /\ dec.v.v = "" THEN JStr("{}") ELSE dec.v
        parsed == IF text.t = "str" THEN json_loads(text.v) ELSE [ok |-> TRUE, v |-> text]
    IN IF ~dec.ok THEN Result(<< >>, v)
       ELSE IF ~parsed.ok THEN Result(<< >>, text)
       ELSE IF parsed.v.t # "dict" THEN Result(<< >>, parsed.v)
       ELSE get_domain_records_dict(d, parsed.v)

----------------------------------------------------------------------------
(* Encode: add_domain_record and its helpers.  A helper that works on the  *)
(* node of one domain returns [value, err]: the node after the call and    *)
(* the message of the exception it raised ("" when it returned).           *)

Done(v) == [value |-> v, err |-> ""]
Raise(v, msg) == [value |-> v, err |-> msg]

\* mutant: a list of one entry is not minimized
append_minimized_keep_list(v, key, data) ==
    LET v1 == IF ~Has(v, key) THEN Put(v, key, EmptyList) ELSE v
        v2 == IF Get(v1, key).t = "str" THEN Put(v1, key, JList(<< Get(v1, key) >>)) ELSE v1
    IN Put(v2, key, JList(Append(Get(v2, key).v, data)))

\* "make sure the field exists; make sure the field is an array; add the
\* record; minimize to string form if possible"
append_minimized(v, key, data) ==
    LET v1 == IF ~Has(v, key) THEN Put(v, key, EmptyList) ELSE v
        v2 == IF Get(v1, key).t = "str" THEN Put(v1, key, JList(<< Get(v1, key) >>)) ELSE v1
        v3 == Put(v2, key, JList(Append(Get(v2, key).v, data)))
        v4 == IF Len(Get(v3, key).v) = 1 THEN Put(v3, key, Get(v3, key).v[1]) ELSE v3
    IN v4

\* "make sure the field exists; add the record"
append_plain(v, key, data) ==
    LET v1 == IF ~Has(v, key) THEN Put(v, key, EmptyList) ELSE v
    IN Put(v1, key, JList(Append(Get(v1, key).v, data)))

add_domain_record_address_ip4(v, data) == Done(append_minimized(v, "ip", data))
add_domain_record_address_ip6(v, data) == Done(append_minimized(v, "ip6", data))
add_domain_record_address_i2p(v, data) == Done(append_minimized(v, "i2p", data))

add_domain_record_address_freenet(v, data) ==
    IF Has(v, "freenet") THEN Raise(v, "Multiple Freenet records for one domain")
    ELSE Done(Put(v, "freenet", data))

add_domain_record_address_zeronet(v, data) ==
    IF Has(v, "zeronet") THEN Raise(v, "Multiple ZeroNet records for one domain")
    ELSE Done(Put(v, "zeronet", data))

add_domain_record_address(v, data) ==
    LET address_type == data.v[1]
        address_data == data.v[2]
    IN IF address_type = JStr("ip4") THEN add_domain_record_address_ip4(v, address_data)
       ELSE IF address_type = JStr("ip6") THEN add_domain_record_address_ip6(v, address_data)
       ELSE IF address_type = JStr("i2p") THEN add_domain_record_address_i2p(v, address_data)
       ELSE IF address_type = JStr("freenet") THEN add_domain_record_address_freenet(v, address_data)
       ELSE IF address_type = JStr("zeronet") THEN add_domain_record_address_zeronet(v, address_data)
       ELSE Raise(v, "Unknown address type")

\* mutant: a second CNAME record replaces the first
add_domain_record_cname_overwrite(v, data) == Done(Put(v, "alias", data))

add_domain_record_cname(v, data) ==
    IF Has(v, "alias") THEN Raise(v, "Multiple CNAME records for one domain")
    ELSE Done(Put(v, "alias", data))

add_domain_record_ns(v, data) == Done(append_minimized(v, "ns", data))
add_domain_record_ds(v, data) == Done(append_plain(v, "ds", data))
add_domain_record_tls(v, data) ==
    Done(append_plain(v, "tls", JList(<< JInt(2), JInt(1), JInt(0), data >>)))
add_domain_record_sshfp(v, data) == Done(append_plain(v, "sshfp", data))
add_domain_record_txt(v, data) == Done(append_minimized(v, "txt", data))
add_domain_record_srv(v, data) == Done(append_plain(v, "srv", data))

add_domain_record_import(v, data) ==
    LET v1 == IF ~Has(v, "import") THEN Put(v, "import", EmptyList) ELSE v
        v2 == IF Get(v1, "import").t = "str"
              THEN Put(v1, "import", JList(<< Get(v1, "import") >>)) ELSE v1
        d1 == IF data.t = "list" /\ Len(data.v) = 2 /\ PyEq(data.v[2], JStr(""))
              THEN data.v[1] ELSE data
        d2 == IF d1.t = "list" /\ Len(d1.v) = 1 THEN d1.v[1] ELSE d1
        v3 == Put(v2, "import", JList(Append(Get(v2, "import").v, d2)))
        v4 == IF Len(Get(v3, "import").v) = 1 /\ Get(v3, "import").v[1].t = "str"
              THEN Put(v3, "import", Get(v3, "import").v[1]) ELSE v3
    IN Done(v4)

\* creates value["map"][l1]["map"][l2]... where it is missing
RECURSIVE add_domain_record_map(_, _)
add_domain_record_map(v, map_labels) ==
    IF Len(map_labels) = 0 THEN v
    ELSE LET v1 == IF ~Has(v, "map") THEN Put(v, "map", EmptyDict) ELSE v
             m1 == Get(v1, "map")
             m2 == IF ~Has(m1, map_labels[1]) THEN Put(m1, map_labels[1], EmptyDict) ELSE m1
             child == add_domain_record_map(Get(m2, map_labels[1]), Tail(map_labels))
         IN Put(v1, "map", Put(m2, map_labels[1], child))

\* value["map"][l1]["map"][l2]...
RECURSIVE NodeAt(_, _)
NodeAt(v, map_labels) ==
    IF Len(map_labels) = 0 THEN v
    ELSE NodeAt(Get(Get(v, "map"), map_labels[1]), Tail(map_labels))

\* the value after the node at map_labels was changed in place to node
RECURSIVE WithNodeAt(_, _, _)
WithNodeAt(v, map_labels, node) ==
    IF Len(map_labels) = 0 THEN node
    ELSE LET m == Get(v, "map")
         IN Put(v, "map", Put(m, map_labels[1],
                              WithNodeAt(Get(m, map_labels[1]), Tail(map_labels), node)))

\* the domain, type and payload after the Tor and TLS adjustments
Adjusted(record) ==
    LET tor == record[2] = "address" /\ record[3].v[1] = JStr("tor")
        d1 == IF tor THEN "_tor." \o record[1] ELSE record[1]
        type == IF tor THEN "txt" ELSE record[2]
        data == IF tor THEN record[3].v[2] ELSE record[3]
        d2 == IF type = "tls" THEN "*." \o d1 ELSE d1
    IN [domain |-> d2, type |-> type, data |-> data]

\* mutant: the labels in the order of the name, farthest label first
MapLabels_unreversed(base_domain, d) ==
    IF d = base_domain THEN << >>
    ELSE Split(SubSeq(d, 1, Len(d) - Len("." \o base_domain)))

\* the labels below the base domain, closest to the base domain first
MapLabels(base_domain, d) ==
    IF d = base_domain THEN << >>
    ELSE Reverse(Split(SubSeq(d, 1, Len(d) - Len("." \o base_domain))))

\* mutant: the base domain is checked after the map nodes were created
add_domain_record_late_check(base_domain, v, record) ==
    LET a == Adjusted(record)
        map_labels == MapLabels(base_domain, a.domain)
        v1 == add_domain_record_map(v, map_labels)
        subdomain_value == NodeAt(v1, map_labels)
        r == IF a.type = "address" THEN add_domain_record_address(subdomain_value, a.data)
             ELSE IF a.type = "cname" THEN add_domain_record_cname(subdomain_value, a.data)
             ELSE IF a.type = "ns" THEN add_domain_record_ns(subdomain_value, a.data)
             ELSE IF a.type = "ds" THEN add_domain_record_ds(subdomain_value, a.data)
             ELSE IF a.type = "tls" THEN add_domain_record_tls(subdomain_value, a.data)
             ELSE IF a.type = "sshfp" THEN add_domain_record_sshfp(subdomain_value, a.data)
             ELSE IF a.type = "txt" THEN add_domain_record_txt(subdomain_value, a.data)
             ELSE IF a.type = "srv" THEN add_domain_record_srv(subdomain_value, a.data)
             ELSE IF a.type = "import" THEN add_domain_record_import(subdomain_value, a.data)
             ELSE Done(subdomain_value)
    IN IF ~EndsWith(a.domain, base_domain) THEN Raise(v1, "Base domain mismatch")
       ELSE [value |-> WithNodeAt(v1, map_labels, r.value), err |-> r.err]

add_domain_record(base_domain, v, record) ==
    LET a == Adjusted(record)
        map_labels == MapLabels(base_domain, a.domain)
        v1 == add_domain_record_map(v, map_labels)
        subdomain_value == NodeAt(v1, map_labels)
        r == IF a.type = "address" THEN add_domain_record_address(subdomain_value, a.data)
             ELSE IF a.type = "cname" THEN add_domain_record_cname(subdomain_value, a.data)
             ELSE IF a.type = "ns" THEN add_domain_record_ns(subdomain_value, a.data)
             ELSE IF a.type = "ds" THEN add_domain_record_ds(subdomain_value, a.data)
             ELSE IF a.type = "tls" THEN add_domain_record_tls(subdomain_value, a.data)
             ELSE IF a.type = "sshfp" THEN add_domain_record_sshfp(subdomain_value, a.data)
             ELSE IF a.type = "txt" THEN add_domain_record_txt(subdomain_value, a.data)
             ELSE IF a.type = "srv" THEN add_domain_record_srv(subdomain_value, a.data)
             ELSE IF a.type = "import" THEN add_domain_record_import(subdomain_value, a.data)
             ELSE Done(subdomain_value)
    IN IF ~EndsWith(a.domain, base_domain) THEN Raise(v, "Base domain mismatch")
       ELSE [value |-> WithNodeAt(v1, map_labels, r.value), err |-> r.err]

----------------------------------------------------------------------------
(* Name operations and output scripts.  Byte strings are sequences of     *)
(* byte codes; hex text is a string of hex digits.                         *)

OP_NAME_REGISTER == 81
OP_NAME_UPDATE == 82
OP_2DROP == 109
OP_DROP == 117
OP_PUSHDATA1 == 76
OP_PUSHDATA2 == 77
OP_PUSHDATA4 == 78

NameOp(op, name, v) == [op |-> op, name |-> name, value |-> v]

HexDigits == "0123456789abcdef"
HexDigit(n) == SubSeq(HexDigits, n + 1, n + 1)
HexVal(c) == (CHOOSE k \in 1..16 : SubSeq(HexDigits, k, k) = c) - 1

\* int_to_hex(i, length): little-endian hex text of length bytes
RECURSIVE int_to_hex(_, _)
int_to_hex(i, length) ==
    IF length = 0 THEN ""
    ELSE HexDigit((i % 256) \div 16) \o HexDigit(i % 16) \o int_to_hex(i \div 256, length - 1)

\* the hex text of the byte codes lo .. hi of a sequence
RECURSIVE HexOf(_, _, _)
HexOf(codes, lo, hi) ==
    IF lo > hi THEN ""
    ELSE IF lo = hi THEN int_to_hex(codes[lo], 1)
    ELSE HexOf(codes, lo, (lo + hi) \div 2) \o HexOf(codes, (lo + hi) \div 2 + 1, hi)

\* bh2u(bytes): the hex text of a byte string
bh2u(b) == HexOf(b.v, 1, Len(b.v))

\* bfh(hex): the byte string of a hex text
bfh(h) ==
    JBytes([i \in 1..(Len(h) \div 2) |->
        16 * HexVal(SubSeq(h, 2 * i - 1, 2 * i - 1)) + HexVal(SubSeq(h, 2 * i, 2 * i))])

\* the length prefix of a push of i bytes
op_push(i) ==
    IF i < OP_PUSHDATA1 THEN int_to_hex(i, 1)
    ELSE IF i <= 255 THEN int_to_hex(OP_PUSHDATA1, 1) \o int_to_hex(i, 1)
    ELSE IF i <= 65535 THEN int_to_hex(OP_PUSHDATA2, 1) \o int_to_hex(i, 2)
    ELSE int_to_hex(OP_PUSHDATA4, 1) \o int_to_hex(i, 4)

\* push_script(data): a length-prefixed push of the bytes of a hex text
push_script(data) == op_push(Len(data) \div 2) \o data

\* the little-endian number in bytes i .. i + n - 1
RECURSIVE LittleEndian(_, _, _)
LittleEndian(b, i, n) == IF n = 0 THEN 0 ELSE b[i] + 256 * LittleEndian(b, i + 1, n - 1)

\* the width of the length field of a push opcode
SizeBytes(opcode) ==
    IF opcode = OP_PUSHDATA1 THEN 1 ELSE IF opcode = OP_PUSHDATA2 THEN 2
    ELSE IF opcode = OP_PUSHDATA4 THEN 4 ELSE 0

\* script_GetOp over the byte codes b from position i on, after the
\* elements ops: the list of the elements (opcode, data, end) of a script, or
\* None for MalformedBitcoinScript
RECURSIVE GetOp(_, _, _)
GetOp(b, i, ops) ==
    IF i > Len(b) THEN JList(ops)
    ELSE IF b[i] > OP_PUSHDATA4 THEN GetOp(b, i + 1, Append(ops, <<b[i], Null, i>>))
    ELSE IF i + SizeBytes(b[i]) > Len(b) THEN Null
    ELSE LET w == SizeBytes(b[i])
             j == i + w + (IF w = 0 THEN b[i] ELSE LittleEndian(b, i + 1, w))
         IN IF j > Len(b) THEN Null
            ELSE GetOp(b, j + 1, Append(ops, <<b[i], JBytes(SubSeq(b, i + w + 1, j)), j>>))

\* decoded = [x for x in script_GetOp(_bytes)], None when it raises
script_GetOp(bytes) == GetOp(bytes.v, 1, << >>)

\* OPPushDataGeneric matches every push opcode
IsPush(opcode) == opcode <= OP_PUSHDATA4

\* match_script_against_template(script, [op, push, push, 2DROP, DROP])
match_script_against_template(s, op) ==
    /\ Len(s) = 5
    /\ s[1][1] = op
    /\ IsPush(s[2][1])
    /\ IsPush(s[3][1])
    /\ s[4][1] = OP_2DROP
    /\ s[5][1] = OP_DROP

Take(s, n) == SubSeq(s, 1, IF Len(s) < n THEN Len(s) ELSE n)
Drop(s, n) == SubSeq(s, n + 1, Len(s))

SplitResult(op, rest) == [name_op |-> op, address_scriptPubKey |-> rest]

\* split_name_script that matches the whole script against the templates
split_name_script_whole(decoded) ==
    IF decoded = Null THEN SplitResult(Null, decoded)
    ELSE IF match_script_against_template(decoded.v, OP_NAME_REGISTER)
      THEN SplitResult(NameOp(OP_NAME_REGISTER, decoded.v[2][2], decoded.v[3][2]),
                       JList(Drop(decoded.v, 5)))
    ELSE IF match_script_against_template(decoded.v, OP_NAME_UPDATE)
      THEN SplitResult(NameOp(OP_NAME_UPDATE, decoded.v[2][2], decoded.v[3][2]),
                       JList(Drop(decoded.v, 5)))
    ELSE SplitResult(Null, decoded)

split_name_script(decoded) ==
    IF decoded = Null THEN SplitResult(Null, decoded)
    ELSE IF match_script_against_template(Take(decoded.v, 5), OP_NAME_REGISTER)
      THEN SplitResult(NameOp(OP_NAME_REGISTER, decoded.v[2][2], decoded.v[3][2]),
                       JList(Drop(decoded.v, 5)))
    ELSE IF match_script_against_template(Take(decoded.v, 5), OP_NAME_UPDATE)
      THEN SplitResult(NameOp(OP_NAME_UPDATE, decoded.v[2][2], decoded.v[3][2]),
                       JList(Drop(decoded.v, 5)))
    ELSE SplitResult(Null, decoded)

get_name_op_from_output_script(bytes) == split_name_script(script_GetOp(bytes)).name_op

\* json.loads of a byte string: the UTF-8 text is parsed.  Multi-byte
\* sequences are left out: a byte above 127 is an invalid start byte.
json_loads_bytes(b) ==
    IF \E i \in 1..Len(b.v) : b.v[i] > 127
      THEN [exc |-> "UnicodeDecodeError", ok |-> FALSE, v |-> Null]
    ELSE [exc |-> "", ok |-> json_loads(ChrAll(b.v)).ok, v |-> json_loads(ChrAll(b.v)).v]

identifier_length_limit == 256
value_length_limit == 2048

validate_identifier_length(identifier) ==
    IF Len(identifier.v) > identifier_length_limit THEN "identifier length exceeds limit" ELSE ""

ParsedError(p) ==
    IF p.exc # "" THEN p.exc
    ELSE IF ~p.ok THEN "Value is invalid JSON"
    ELSE IF p.v.t # "dict" THEN "Value is not a JSON object"
    ELSE ""

\* validate_value_length without the check that the parsed value is a dict
validate_value_length_any_json(v) ==
    IF Len(v.v) = 0 THEN ""
    ELSE IF Len(v.v) > value_length_limit THEN "value length exceeds limit"
    ELSE IF json_loads_bytes(v).exc # "" THEN json_loads_bytes(v).exc
    ELSE IF ~json_loads_bytes(v).ok THEN "Value is invalid JSON"
    ELSE ""

validate_value_length(v) ==
    IF Len(v.v) = 0 THEN ""
    ELSE IF Len(v.v) > value_length_limit THEN "value length exceeds limit"
    ELSE ParsedError(json_loads_bytes(v))

\* the message of the exception, or "" when the validator returns
validate_anyupdate_length(op) ==
    IF validate_identifier_length(op.name) # "" THEN validate_identifier_length(op.name)
    ELSE validate_value_length(op.value)

validate_update_length(op) == validate_anyupdate_length(op)

Script(text) == [script |-> text, err |-> ""]
ScriptError(message) == [script |-> "", err |-> message]

\* the script of a valid operation: opcode, two pushes, 2DROP, DROP
name_script(opcode, op) ==
    IF validate_update_length(op) # "" THEN ScriptError(validate_update_length(op))
    ELSE Script(opcode \o push_script(bh2u(op.name)) \o push_script(bh2u(op.value))
                \o "6d" \o "75")

\* name_op_to_script with the validator ahead of the dispatch on the kind
name_op_to_script_validate_first(op) ==
    IF op = Null THEN Script("")
    ELSE IF validate_update_length(op) # "" THEN ScriptError(validate_update_length(op))
    ELSE IF op.op = OP_NAME_REGISTER THEN name_script("51", op)
    ELSE IF op.op = OP_NAME_UPDATE THEN name_script("52", op)
    ELSE ScriptError("unknown name op")

name_op_to_script(op) ==
    IF op = Null THEN Script("")
    ELSE IF op.op = OP_NAME_REGISTER THEN name_script("51", op)
    ELSE IF op.op = OP_NAME_UPDATE THEN name_script("52", op)
    ELSE ScriptError("unknown name op")

\* identifier.split("/", 1): the position of the first "/", or 0
FirstSlash(s) ==
    IF \E i \in 1..Len(s) : Ch(s, i) = "/"
      THEN CHOOSE i \in 1..Len(s) : Ch(s, i) = "/" /\ \A k \in 1..(i - 1) : Ch(s, k) # "/"
    ELSE 0

LabelChars == "abcdefghijklmnopqrstuvwxyz0123456789"
IsLabelChar(c) == \E k \in 1..Len(LabelChars) : SubSeq(LabelChars, k, k) = c

\* "$" of re matches at the end and before a newline that ends the text
BeforeDollar(s) ==
    IF Len(s) > 0 /\ Ch(s, Len(s)) = "\n" THEN {s, SubSeq(s, 1, Len(s) - 1)} ELSE {s}

\* [a-z0-9]+(-[a-z0-9]+)* over the whole of s
MatchGroups(s) ==
    /\ Len(s) > 0
    /\ \A i \in 1..Len(s) :
          \/ IsLabelChar(Ch(s, i))
          \/ Ch(s, i) = "-" /\ i > 1 /\ i < Len(s) /\ IsLabelChar(Ch(s, i + 1))

\* re.match(r"^(xn--)?[a-z0-9]+(-[a-z0-9]+)*$", label), without (xn--)? for id/
match_label(label, idn) ==
    \E s \in BeforeDollar(label) :
       \/ MatchGroups(s)
       \/ idn /\ At(s, 1, "xn--") /\ MatchGroups(SubSeq(s, 5, Len(s)))

\* re.match(r"^[0-9]+$", label)
match_number(label) ==
    \E s \in BeforeDollar(label) : Len(s) > 0 /\ \A i \in 1..Len(s) : IsDigit(Ch(s, i))

\* namespace_of without the rejection of digits-only labels
namespace_of_digits_allowed(ns, label) ==
    IF ns = "d"
      THEN IF Len(label) < 1 THEN Null
           ELSE IF Len(label) > 63 THEN Null
           ELSE IF ~match_label(label, TRUE) THEN Null
           ELSE JStr(ns)
    ELSE IF ns = "id"
      THEN IF Len(label) < 1 THEN Null
           ELSE IF ~match_label(label, FALSE) THEN Null
           ELSE JStr(ns)
    ELSE JStr(ns)

namespace_of(ns, label) ==
    IF ns = "d"
      THEN IF Len(label) < 1 THEN Null
           ELSE IF Len(label) > 63 THEN Null
           ELSE IF ~match_label(label, TRUE) THEN Null
           ELSE IF match_number(label) THEN Null
           ELSE JStr(ns)
    ELSE IF ns = "id"
      THEN IF Len(label) < 1 THEN Null
           ELSE IF ~match_label(label, FALSE) THEN Null
           ELSE JStr(ns)
    ELSE JStr(ns)

split_namespace(s, i) ==
    IF i = 0 THEN Null ELSE namespace_of(SubSeq(s, 1, i - 1), SubSeq(s, i + 1, Len(s)))

identifier_to_namespace(identifier_bytes) ==
    IF ~ascii_decode(identifier_bytes).ok THEN Null
    ELSE split_namespace(ascii_decode(identifier_bytes).v.v,
                         FirstSlash(ascii_decode(identifier_bytes).v.v))

----------------------------------------------------------------------------
(* Bounded inputs *)

MaxList == 2     \* longest list value of a key
MaxDepth == 2    \* deepest nesting of "map"
MaxCalls == 3    \* most add_domain_record calls on one accumulator

S1 == JStr("s1")
S2 == JStr("s2")
D1(k, x) == JDict(<< Item(k, x) >>)
D2(k1, x1, k2, x2) == JDict(<< Item(k1, x1), Item(k2, x2) >>)
L1(x) == JList(<< x >>)
Ints(q) == JList([i \in 1..Len(q) |-> JInt(q[i])])
Seqs(S, n) == UNION {[1..k -> S] : k \in 0..n}
Lists(S) == {JList(q) : q \in Seqs(S, MaxList)}

Dane(x) == JList(<< JInt(2), JInt(1), JInt(0), x >>)
Good4 == JList(<< JInt(1), JInt(2), JInt(3), S1 >>)
Good3 == JList(<< JInt(1), JInt(2), S1 >>)

StrListVals == {S1, Null, JInt(5), EmptyDict} \cup Lists({S1, S2, JInt(5), Null})
SingleVals == {S1, Null, JInt(5), L1(S1), JBool(FALSE)}
ZeronetVals ==
    {S1, Null, JInt(5), L1(S1), EmptyDict, D1("a", S1), D1("", S1), D1("a", JInt(5)),
     D2("a", S1, "", S2), D2("", S2, "a", S1), D2("a", S1, "b", JInt(5)), D2("b", S2, "a", S1)}
Tuple4Vals ==
    {Null, S1} \cup Lists({Good4, Ints(<<1, 2, 3, 4>>), Good3,
                           JList(<< JBool(TRUE), JInt(2), JInt(3), S1 >>), Null})
Tuple3Vals ==
    {Null, S1} \cup Lists({Good3, Ints(<<1, 2, 3>>), Good4,
                           JList(<< JInt(1), JBool(TRUE), S1 >>), JInt(5)})
TlsVals ==
    {Null, S1} \cup Lists({Dane(S1), D1("dane", Dane(S2)), Ints(<<2, 1, 1, 0>>),
                           JList(<< JInt(2), JInt(1), JInt(1), S1 >>), Dane(JInt(5)),
                           JList(<< JInt(2), JBool(TRUE), JInt(0), S1 >>),
                           D2("dane", Dane(S1), "x", JInt(5)), D1("x", Dane(S1)),
                           D1("dane", JInt(5)), JInt(5)})
ImportVals ==
    {S1, Null, JInt(5)} \cup Lists({S1, L1(S2), JList(<< S1, JStr("") >>), JList(<< S1, S2 >>),
                                    JList(<< S1, S2, S1 >>), EmptyList, L1(JInt(5)),
                                    JList(<< S1, JInt(5) >>), JInt(5), Null})

\* a chain of n nested maps with one address at the bottom
RECURSIVE Nest(_)
Nest(n) == IF n = 0 THEN D1("ip", S1) ELSE D1("map", D1("b", Nest(n - 1)))
MapChildren ==
    {S1, JInt(5), Null, EmptyDict, D1("ip", S2), D1("ip", JInt(5)), D1("zeronet", S2),
     D1("txt", S1), D1("tor", S1), D1("tls", L1(Dane(S1))), D2("ns", S1, "foo", JInt(5)),
     D1("map", D1("", S1)), D1("map", D1("*", D1("tls", L1(Dane(S1)))))}
    \cup {Nest(n) : n \in 1..(MaxDepth - 1)}
MapLabelSet == {"", "a", "_tor", "*"}
MapVals ==
    {Null, S1, EmptyDict}
    \cup {D1(l, c) : l \in MapLabelSet, c \in MapChildren}
    \cup {D2(l1, c1, l2, c2) : l1 \in {"", "a"}, l2 \in {"", "b"}, c1 \in MapChildren, c2 \in MapChildren}

StrListKeys == {"ip", "ip6", "tor", "i2p", "ns", "txt"}
ValsOf(k) ==
    IF k \in StrListKeys THEN StrListVals
    ELSE IF k \in {"freenet", "alias"} THEN SingleVals
    ELSE IF k = "zeronet" THEN ZeronetVals
    ELSE IF k \in {"ds", "srv"} THEN Tuple4Vals
    ELSE IF k = "sshfp" THEN Tuple3Vals
    ELSE IF k = "tls" THEN TlsVals
    ELSE IF k = "import" THEN ImportVals
    ELSE IF k = "map" THEN MapVals
    ELSE {JInt(5)}

\* a few values of each key for the objects that have two keys
FewOf(k) ==
    IF k \in StrListKeys THEN {S1, JList(<< S2, JInt(5), S1 >>)}
    ELSE IF k \in {"freenet", "alias"} THEN {S1, JInt(5)}
    ELSE IF k = "zeronet" THEN {S1, D1("a", S1), D1("", S1)}
    ELSE IF k \in {"ds", "srv"} THEN {JList(<< Good4, Good3 >>)}
    ELSE IF k = "sshfp" THEN {JList(<< Good3 >>)}
    ELSE IF k = "tls" THEN {JList(<< Dane(S1), JInt(5) >>)}
    ELSE IF k = "import" THEN {JList(<< S1, JList(<< S1, S2 >>) >>)}
    ELSE IF k = "map" THEN {D1("a", D1("zeronet", S2)), D1("a", S1), D1("a", D1("ip", JInt(5)))}
    ELSE {JInt(5)}

AllKeys == << "ip", "ip6", "tor", "i2p", "freenet", "zeronet", "alias", "ns", "ds", "tls",
              "sshfp", "txt", "srv", "import", "map" >>
KeySet == {AllKeys[i] : i \in 1..Len(AllKeys)} \cup {"foo"}

OneKeyObjects == UNION {{D1(k, x) : x \in ValsOf(k)} : k \in KeySet}
TwoKeyObjects ==
    UNION {{D2(p[1], x1, p[2], x2) : x1 \in FewOf(p[1]), x2 \in FewOf(p[2])} :
              p \in {q \in KeySet \X KeySet : q[1] # q[2]}}
Objects == {EmptyDict} \cup OneKeyObjects \cup TwoKeyObjects

\* values that are not parsed yet: Python str and bytes
Texts ==
    {JStr(""), JStr("{}"), JStr(" { } "), JStr("{\"ip\":\"a\"}"), JStr("{\"ip\":[\"a\",5]}"),
     JStr("{\"map\":{\"a\":\"s\"}}"), JStr("[1]"), JStr("5"), JStr("null"), JStr("\"ip\""),
     JStr("{\"ip\":\"a\",}"), JStr("{"), JStr("ip"), JStr("{}{}"), JStr("01")}
ByteStrings ==
    {JBytes(<< >>), JBytes(<<123, 125>>), JBytes(<<123, 34, 105, 112, 34, 58, 34, 97, 34, 125>>),
     JBytes(<<123, 200, 125>>), JBytes(<<200>>), JBytes(<<123>>), JBytes(<<53>>),
     JBytes(<<91, 93>>)}
OtherValues == {Null, JInt(5), JBool(TRUE), L1(S1), JList(<< D1("ip", S1) >>)}

Inputs == Objects \cup Texts \cup ByteStrings \cup OtherValues
Domains == {"e", "*.a.b", "_tor.e"}

\* records for add_domain_record
Addr(d, kind, x) == Rec(d, "address", AddressData(kind, x))
RecordSet ==
    {Addr("e", "ip4", S1), Addr("e", "ip4", S2), Addr("e", "ip6", S1), Addr("e", "i2p", S1),
     Addr("e", "tor", S1), Addr("e", "freenet", S1), Addr("e", "zeronet", S1),
     Addr("e", "bogus", S1), Rec("e", "cname", S1), Rec("e", "ns", S1), Rec("e", "ds", Good4),
     Rec("e", "tls", S1), Rec("e", "sshfp", Good3), Rec("e", "txt", S1), Rec("e", "srv", Good4),
     Rec("e", "import", JList(<< S1, JStr("") >>)), Rec("e", "import", JList(<< S1, S2 >>)),
     Rec("e", "bogus", S1), Rec("e", "cname", S2), Addr("a.e", "freenet", S2),
     Addr("a.e", "ip4", S1), Addr("a.e", "tor", S1), Addr("a.e", "freenet", S1),
     Addr("a.e", "bogus", S1), Rec("a.e", "tls", S1),
     Rec("abe", "ns", S1), Addr("abe", "tor", S1), Rec("f", "ns", S1), Addr("f", "tor", S1), Rec("_tor.e", "txt", S2)}
Bases == {"e", "_tor.e"}

----------------------------------------------------------------------------
(* Decode a value, then encode the decoded records into an empty           *)
(* accumulator over the same base domain.                                  *)

\* no name operation is at hand
NoNameOp ==
    /\ name_op = Null
    /\ script = ""
    /\ tx_script = JBytes(<< >>)
    /\ split = Null
    /\ namespace = Null

Init ==
    /\ pc = "start"
    /\ domain \in Domains
    /\ value \in Inputs
    /\ orig = value
    /\ records = << >>
    /\ residual = Null
    /\ acc = EmptyDict
    /\ err = ""
    /\ pending = << >>
    /\ added = << >>
    /\ last = NoRecord
    /\ NoNameOp

\* records, residual = get_domain_records(domain, value).  A dict is decoded
\* in place: every "value[key] = ..." and "del value[key]" of
\* get_domain_records acts on the caller's object, which is also the object
\* that is returned.  A str or bytes value is immutable and is parsed into a
\* fresh object.
Decode ==
    /\ pc = "start"
    /\ \E r \in {get_domain_records(domain, value)} :
          IF r.exc # ""
            THEN pc' = "raised" /\ UNCHANGED <<records, residual, value, pending>>
            ELSE /\ pc' = "decoded"
                 /\ records' = r.records
                 /\ residual' = r.remaining
                 /\ value' = IF value.t = "dict" THEN r.remaining ELSE value
                 /\ pending' = r.records
    /\ UNCHANGED <<domain, orig, acc, err, added, last>>
    /\ UNCHANGED opvars

\* add_domain_record(domain, acc, record) for the next decoded record
Encode ==
    /\ pc \in {"decoded", "encoding"}
    /\ pending # << >>
    /\ \E r \in {add_domain_record(domain, acc, Head(pending))} :
          /\ acc' = r.value
          /\ err' = r.err
          /\ added' = IF r.err = "" THEN Append(added, Head(pending)) ELSE added
          /\ pc' = IF r.err = "" THEN "encoding" ELSE "failed"
    /\ last' = Head(pending)
    /\ pending' = Tail(pending)
    /\ UNCHANGED <<domain, value, orig, records, residual>>
    /\ UNCHANGED opvars

Next == Decode \/ Encode

Spec == Init /\ [][Next]_vars

----------------------------------------------------------------------------
(* Encode arbitrary records into an accumulator that starts empty.         *)

InitEnc ==
    /\ pc = "encoding"
    /\ domain \in Bases
    /\ value = Null
    /\ orig = Null
    /\ records = << >>
    /\ residual = Null
    /\ acc = EmptyDict
    /\ err = ""
    /\ pending = << >>
    /\ added = << >>
    /\ last = NoRecord
    /\ NoNameOp

\* add_domain_record(domain, acc, record); the caller stops at an exception
AddRecord ==
    /\ pc = "encoding"
    /\ Len(added) < MaxCalls
    /\ \E record \in RecordSet :
          \E r \in {add_domain_record(domain, acc, record)} :
             /\ acc' = r.value
             /\ err' = r.err
             /\ added' = IF r.err = "" THEN Append(added, record) ELSE added
             /\ pc' = IF r.err = "" THEN "encoding" ELSE "failed"
             /\ last' = record
    /\ UNCHANGED <<domain, value, orig, records, residual, pending>>
    /\ UNCHANGED opvars

NextEnc == AddRecord

SpecEnc == InitEnc /\ [][NextEnc]_vars

----------------------------------------------------------------------------
(* Name operations, output scripts and identifiers: each function is      *)
(* applied to an input drawn in the initial state.                         *)

\* text.encode("ascii")
Ord(c) == CHOOSE n \in 0..127 : Chr(n) = c
Bytes(text) == [i \in 1..Len(text) |-> Ord(Ch(text, i))]
Fill(code, n) == [i \in 1..n |-> code]

\* the object {"a":5 } of n bytes, blanks before the closing brace
PaddedObject(n) == Bytes("{\"a\":5") \o Fill(32, n - 7) \o Bytes("}")
PaddedList(n) == Bytes("[") \o Fill(32, n - 2) \o Bytes("]")

OpKinds == {OP_NAME_REGISTER, OP_NAME_UPDATE, 83, 0}
LongNames ==
    {<< >>, Bytes("d/a"), Fill(97, identifier_length_limit - 1),
     Fill(97, identifier_length_limit), Fill(97, identifier_length_limit + 1)}
OpValues ==
    {<< >>, Bytes("{}"), Bytes("{\"a\":5}"), Bytes("{\"a\":[5, {}]}"), Bytes("[]"), Bytes("5"),
     Bytes("na"), Bytes(" "), Bytes("{\"a\":5"), <<123, 255, 125>>,
     PaddedObject(value_length_limit - 1), PaddedObject(value_length_limit),
     PaddedObject(value_length_limit + 1), PaddedList(value_length_limit),
     Fill(97, value_length_limit), Fill(97, value_length_limit + 1)}

A63 == Fill(97, 63)
IdentifierTexts ==
    {"", "d", "da", "/", "/a", "d/", "d/a", "d/a-a", "d/-a", "d/a-", "d/a--a", "d/a-a-5",
     "d/xn--a", "d/xn--", "d/xn---a", "d/xn-a", "d/xn--a-a", "d/xn--5", "d/0", "d/05", "d/0a",
     "d/5-5", "d/A", "d/aA", "d/a a", "d/a/a", "d//", "d/a\n", "d/5\n", "d/\n", "d/a\n\n",
     "d/\na", "id/", "id/a", "id/xn--a", "id/5", "id/a-a", "id/a-", "id/A", "id/a/a", "id/a\n",
     "p/", "p/A", "p/a/a", "p//", "dd/A", "A/a", "x/", " d/a", "d /a", "a/d/a", "id"}
Identifiers ==
    {Bytes(t) : t \in IdentifierTexts}
    \cup {<<100, 47, 200>>, <<200, 47, 97>>, <<112, 47, 128>>,
          Bytes("d/") \o A63, Bytes("d/a") \o A63, Bytes("d/") \o Fill(97, 62) \o Bytes("\n"),
          Bytes("d/") \o A63 \o Bytes("\n"), Bytes("id/a") \o A63, Bytes("d/") \o Fill(53, 63),
          Bytes("d/xn--") \o Fill(97, 59), Bytes("d/xn--") \o Fill(97, 60)}

NameOps ==
    {Null}
    \cup {NameOp(k, JBytes(n), JBytes(v)) : k \in OpKinds, n \in LongNames, v \in OpValues}
    \cup {NameOp(OP_NAME_UPDATE, JBytes(n), JBytes(Bytes("{}"))) : n \in Identifiers}

\* the bytes of the script of a valid operation
ScriptOf(k, n, v) == bfh(name_op_to_script(NameOp(k, JBytes(n), JBytes(v))).script).v
Payments == {<< >>, <<106>>, <<118, 169, 2, 1, 2, 136, 172>>, <<81>>, <<2, 1>>, <<76>>}
NameScripts ==
    {ScriptOf(OP_NAME_REGISTER, Bytes("d/a"), Bytes("{}")),
     ScriptOf(OP_NAME_UPDATE, Bytes("d/a"), Bytes("{}")),
     ScriptOf(OP_NAME_UPDATE, Bytes("d/a"), << >>),
     ScriptOf(OP_NAME_UPDATE, << >>, << >>),
     ScriptOf(OP_NAME_REGISTER, Fill(97, 100), PaddedObject(300)),
     ScriptOf(OP_NAME_UPDATE, Fill(97, identifier_length_limit), PaddedObject(value_length_limit)),
     <<OP_NAME_REGISTER, OP_PUSHDATA1, 1, 97, OP_PUSHDATA4, 1, 0, 0, 0, 98, OP_2DROP, OP_DROP>>,
     <<OP_NAME_UPDATE, 1, 97, 1, 98, OP_2DROP, OP_DROP, OP_NAME_REGISTER, 1, 100, 1, 98, OP_2DROP>>}
OtherScripts ==
    {<<83, 1, 97, 1, 98, OP_2DROP, OP_DROP>>, <<OP_NAME_REGISTER>>, <<OP_NAME_REGISTER, 1, 97>>,
     <<OP_NAME_REGISTER, 1, 97, 1, 98, OP_2DROP>>, <<OP_NAME_UPDATE, 1, 97, 1, 98, OP_DROP, OP_2DROP>>,
     <<OP_NAME_UPDATE, 1, 97, 1, 98, OP_2DROP, OP_2DROP, OP_DROP>>,
     <<OP_NAME_REGISTER, OP_NAME_REGISTER, 1, 98, OP_2DROP, OP_DROP>>,
     <<OP_NAME_UPDATE, 1, 97, OP_NAME_UPDATE, OP_2DROP, OP_DROP>>,
     <<118, OP_NAME_REGISTER, 1, 97, 1, 98, OP_2DROP, OP_DROP>>,
     <<1, 97, 1, 98, OP_2DROP, OP_DROP>>, <<118, 169, 2, 1, 2, 136, 172>>,
     <<OP_NAME_REGISTER, 5, 97>>, <<OP_PUSHDATA1>>, <<OP_PUSHDATA2, 1>>, <<OP_PUSHDATA4, 1, 0, 0>>,
     <<OP_PUSHDATA1, 2, 97>>, <<OP_NAME_UPDATE, 1, 97, 2, 98, OP_2DROP, OP_DROP>>}
TxScripts ==
    {JBytes(s \o p) : s \in NameScripts, p \in Payments}
    \cup {JBytes(s) : s \in OtherScripts \cup Payments}

InitOp ==
    /\ pc = "start"
    /\ err = ""
    /\ \/ name_op \in NameOps /\ tx_script = JBytes(<< >>)
       \/ name_op = Null /\ tx_script \in TxScripts
    /\ script = ""
    /\ split = Null
    /\ namespace = Null
    /\ domain = ""
    /\ value = Null
    /\ orig = Null
    /\ records = << >>
    /\ residual = Null
    /\ acc = EmptyDict
    /\ pending = << >>
    /\ added = << >>
    /\ last = NoRecord

\* validate_update_length(name_op)
Validate ==
    /\ pc = "start"
    /\ name_op # Null
    /\ pc' = "validated"
    /\ err' = validate_update_length(name_op)
    /\ UNCHANGED <<codecvars, opvars>>

\* script = name_op_to_script(name_op)
ToScript ==
    /\ pc = "start"
    /\ pc' = "scripted"
    /\ \E r \in {name_op_to_script(name_op)} : script' = r.script /\ err' = r.err
    /\ UNCHANGED <<codecvars, name_op, tx_script, split, namespace>>

\* get_name_op_from_output_script(tx_script), with the whole result of
\* split_name_script
GetNameOp ==
    /\ pc = "start"
    /\ pc' = "split"
    /\ split' = split_name_script(script_GetOp(tx_script))
    /\ UNCHANGED <<codecvars, err, name_op, script, tx_script, namespace>>

\* identifier_to_namespace(name_op["name"])
Classify ==
    /\ pc = "start"
    /\ name_op # Null
    /\ pc' = "classified"
    /\ namespace' = identifier_to_namespace(name_op.name)
    /\ UNCHANGED <<codecvars, err, name_op, script, tx_script, split>>

NextOp == Validate \/ ToScript \/ GetNameOp \/ Classify

SpecOp == InitOp /\ [][NextOp]_vars

----------------------------------------------------------------------------
(* What the claims speak of *)

Absent == [t |-> "absent"]

IsTuple4(x) ==
    /\ x.t = "list" /\ Len(x.v) = 4
    /\ x.v[1].t = "int" /\ x.v[2].t = "int" /\ x.v[3].t = "int" /\ x.v[4].t = "str"
IsTuple3(x) ==
    /\ x.t = "list" /\ Len(x.v) = 3
    /\ x.v[1].t = "int" /\ x.v[2].t = "int" /\ x.v[3].t = "str"
IsDane(x) ==
    /\ x.t = "list" /\ Len(x.v) = 4
    /\ PyEq(x.v[1], JInt(2)) /\ PyEq(x.v[2], JInt(1)) /\ PyEq(x.v[3], JInt(0))
    /\ x.v[4].t = "str"
IsTlsEntry(x) ==
    \/ IsDane(x)
    \/ x.t = "dict" /\ Len(x.v) = 1 /\ Has(x, "dane") /\ IsDane(Get(x, "dane"))
IsImportEntry(x) ==
    \/ x.t = "str"
    \/ x.t = "list" /\ Len(x.v) \in {1, 2} /\ x.v[1].t = "str"
IsString(x) == x.t = "str"
WildcardContext(d) == Len(Split(d)) = 3 /\ Split(d)[1] = "*"

\* the shape of a list entry of key k that yields a record
GoodEntry(d, k, e) ==
    IF k \in {"ip", "ip6", "tor", "i2p", "ns", "txt"} THEN IsString(e)
    ELSE IF k \in {"ds", "srv"} THEN IsTuple4(e)
    ELSE IF k = "sshfp" THEN IsTuple3(e)
    ELSE IF k = "tls" THEN WildcardContext(d) /\ IsTlsEntry(e)
    ELSE IF k = "import" THEN IsImportEntry(e)
    ELSE FALSE
\* the entries of a list value of key k that yield a record; Absent when
\* there are none
GoodEntries(d, k, x) ==
    IF x.t # "list" THEN Absent
    ELSE LET q == SelectSeq(x.v, LAMBDA e : GoodEntry(d, k, e))
         IN IF q = << >> THEN Absent ELSE JList(q)

\* the fully-resolved portion of a value: the fragments of v that have the
\* documented shape of their key, from which the records are made
RECURSIVE ResolvedPart(_, _), ResolvedItems(_, _, _), ResolvedMap(_, _, _)
ResolvedKey(d, k, x) ==
    IF k \in {"ip", "ip6", "tor", "i2p", "ns", "txt"}
      THEN IF x.t = "str" THEN x ELSE GoodEntries(d, k, x)
    ELSE IF k \in {"freenet", "alias"} THEN IF x.t = "str" THEN x ELSE Absent
    ELSE IF k = "zeronet"
      THEN IF x.t = "str" THEN x
           ELSE IF x.t = "dict" /\ x.v # << >> /\ \A i \in 1..Len(x.v) : x.v[i].v.t = "str"
             THEN x
           ELSE Absent
    ELSE IF k \in {"ds", "srv", "sshfp", "tls"} THEN GoodEntries(d, k, x)
    ELSE IF k = "import" THEN IF x.t = "str" THEN x ELSE GoodEntries(d, k, x)
    ELSE IF k = "map"
      THEN IF x.t # "dict" THEN Absent
           ELSE LET m == ResolvedMap(d, x.v, 1)
                IN IF m = << >> THEN Absent ELSE JDict(m)
    ELSE Absent

ResolvedItems(d, items, i) ==
    IF i > Len(items) THEN << >>
    ELSE LET r == ResolvedKey(d, items[i].k, items[i].v)
         IN (IF r = Absent THEN << >> ELSE << Item(items[i].k, r) >>)
            \o ResolvedItems(d, items, i + 1)

ResolvedMap(d, items, i) ==
    IF i > Len(items) THEN << >>
    ELSE LET child == items[i].v
             sub == items[i].k \o "." \o d
             r == IF items[i].k = "" THEN Absent
                  ELSE IF child.t = "str" THEN child
                  ELSE IF child.t = "dict"
                    THEN (IF ResolvedItems(sub, child.v, 1) = << >> THEN Absent
                          ELSE JDict(ResolvedItems(sub, child.v, 1)))
                  ELSE Absent
         IN (IF r = Absent THEN << >> ELSE << Item(items[i].k, r) >>)
            \o ResolvedMap(d, items, i + 1)

ResolvedPart(d, v) == JDict(ResolvedItems(d, v.v, 1))

\* the documented minimizations: a one-element list of a string key is the
\* string, an import entry [name, ""] or [name] is name, a tls entry
\* {"dane": x} is x
NormImportEntry(x) ==
    IF x.t = "list" /\ Len(x.v) = 2 /\ PyEq(x.v[2], JStr("")) THEN x.v[1]
    ELSE IF x.t = "list" /\ Len(x.v) = 1 THEN x.v[1]
    ELSE x
NormTlsEntry(x) == IF x.t = "dict" /\ Has(x, "dane") /\ Len(x.v) = 1 THEN Get(x, "dane") ELSE x
Unwrap(x) == IF x.t = "list" /\ Len(x.v) = 1 /\ x.v[1].t = "str" THEN x.v[1] ELSE x
RECURSIVE Norm(_)
NormKey(k, x) ==
    IF k \in {"ip", "ip6", "tor", "i2p", "ns", "txt"} THEN Unwrap(x)
    ELSE IF k = "import" /\ x.t = "list"
      THEN Unwrap(JList([i \in 1..Len(x.v) |-> NormImportEntry(x.v[i])]))
    ELSE IF k = "tls" /\ x.t = "list"
      THEN JList([i \in 1..Len(x.v) |-> NormTlsEntry(x.v[i])])
    ELSE IF k = "map" /\ x.t = "dict"
      THEN JDict([i \in 1..Len(x.v) |-> Item(x.v[i].k, Norm(x.v[i].v))])
    ELSE x
Norm(v) ==
    IF v.t # "dict" THEN v
    ELSE JDict([i \in 1..Len(v.v) |-> Item(v.v[i].k, NormKey(v.v[i].k, v.v[i].v))])

\* the legacy forms, which the encoder writes back in another place: the
\* tor key, the object form of zeronet, a map child that is a bare string,
\* and a map label that is itself a dotted name
RECURSIVE NoLegacy(_)
NoLegacy(v) ==
    \/ v.t # "dict"
    \/ /\ ~Has(v, "tor")
       /\ Has(v, "zeronet") => Get(v, "zeronet").t # "dict"
       /\ (Has(v, "map") /\ Get(v, "map").t = "dict") =>
             \A i \in 1..Len(Get(v, "map").v) :
                LET it == Get(v, "map").v[i]
                IN it.k # "" => /\ it.v.t # "str"
                                /\ Len(Split(it.k)) = 1
                                /\ NoLegacy(it.v)

RoundTripDone == pc \in {"decoded", "encoding"} /\ pending = << >> /\ orig.t = "dict"

\* C1 as stated: after decoding V and encoding every record into {}, the
\* accumulator equals the fully-resolved portion of V up to the documented
\* minimizations, for every recognized key
C1_RoundTripAllKeys ==
    /\ orig.t = "dict" => pc # "failed"
    /\ RoundTripDone => PyEq(Norm(acc), Norm(ResolvedPart(domain, orig)))

\* C1 amended: the same, for the values that use none of the legacy forms
C1_RoundTrip ==
    (orig.t = "dict" /\ NoLegacy(orig)) =>
        /\ pc # "failed"
        /\ RoundTripDone => PyEq(Norm(acc), Norm(ResolvedPart(domain, orig)))

\* a value with a residual and a map was decoded and its records encoded
C1_Witness ==
    /\ RoundTripDone /\ NoLegacy(orig)
    /\ Len(added) >= 2
    /\ Has(acc, "map")
    /\ residual # EmptyDict

----------------------------------------------------------------------------
Decoded == pc \notin {"start", "raised"}

ListKeys == {"ip", "ip6", "tor", "i2p", "ns", "txt", "ds", "srv", "sshfp", "tls", "import"}

\* C2 as stated, for the keys of the top level: a key whose value yields no
\* record is in the residual with its original value, and the list entries
\* that yield no record are the entries of the residual list.  (A value
\* that is already [] or {} holds no fragment and is left out.)
C2_ResidualKeepsFragments ==
    (Decoded /\ orig.t = "dict") =>
        \A i \in 1..Len(orig.v) :
            LET k == orig.v[i].k
                x == orig.v[i].v
                bad == SelectSeq(x.v, LAMBDA e : ~GoodEntry(domain, k, e))
            IN /\ (ResolvedKey(domain, k, x) = Absent /\ x \notin {EmptyList, EmptyDict})
                    => Has(residual, k) /\ PyEq(Get(residual, k), x)
               /\ (k \in ListKeys /\ x.t = "list" /\ bad # << >>)
                    => Has(residual, k) /\ PyEq(Get(residual, k), JList(bad))

\* {"zeronet": Z} with Z an object of strings was decoded
ZeronetObject ==
    /\ orig.t = "dict" /\ Keys(orig) = {"zeronet"}
    /\ Get(orig, "zeronet").t = "dict"
    /\ \A i \in 1..Len(Get(orig, "zeronet").v) : Get(orig, "zeronet").v[i].v.t = "str"
ZeronetRecord(d, x) == Rec(d, "address", AddressData("zeronet", x))

\* C3 as stated: one record at "<key>.<domain>" for every key but "", no
\* record for "", and the "" entry stays in the residual under zeronet
C3_EmptyKeyKept ==
    (Decoded /\ ZeronetObject) =>
        LET z == Get(orig, "zeronet").v
            named == SelectSeq(z, LAMBDA it : it.k # "")
        IN /\ records = [i \in 1..Len(named) |->
                            ZeronetRecord(named[i].k \o "." \o domain, named[i].v)]
           /\ Has(Get(orig, "zeronet"), "") =>
                 /\ Has(residual, "zeronet")
                 /\ Get(residual, "zeronet").t = "dict"
                 /\ Has(Get(residual, "zeronet"), "")
                 /\ Get(Get(residual, "zeronet"), "") = Get(Get(orig, "zeronet"), "")

\* C3 amended: one record for every key in the order of the keys, at
\* "<key>.<domain>" for a key that is not empty and at the domain itself for
\* the key "", and nothing of zeronet stays in the residual
C3_EmptyKeyIsDomain ==
    (Decoded /\ ZeronetObject) =>
        LET z == Get(orig, "zeronet").v
        IN /\ records = [i \in 1..Len(z) |->
                            ZeronetRecord(IF z[i].k = "" THEN domain
                                          ELSE z[i].k \o "." \o domain, z[i].v)]
           /\ residual = EmptyDict

C3_Witness ==
    /\ Decoded /\ ZeronetObject
    /\ Has(Get(orig, "zeronet"), "") /\ Has(Get(orig, "zeronet"), "a")
    /\ Len(records) = 2

\* C4 as stated: an entry of map with the empty label yields no record and
\* is still in the residual's map with its original child value
C4_EmptyLabelPassedThrough ==
    (/\ Decoded /\ orig.t = "dict" /\ Keys(orig) = {"map"}
     /\ Get(orig, "map").t = "dict" /\ Has(Get(orig, "map"), "")) =>
        /\ \A i \in 1..Len(records) : records[i][1] # "." \o domain /\ records[i][1] # domain
        /\ Has(residual, "map")
        /\ Get(residual, "map").t = "dict"
        /\ Has(Get(residual, "map"), "")
        /\ PyEq(Get(Get(residual, "map"), ""), Get(Get(orig, "map"), ""))

----------------------------------------------------------------------------
KnownTypes == {"address", "cname", "ns", "ds", "tls", "sshfp", "txt", "srv", "import"}
KnownAddressTypes == {"ip4", "ip6", "tor", "i2p", "freenet", "zeronet"}

\* C5 as stated: a record of a documented type that add_domain_record
\* accepted is among the records that get_domain_records finds in the
\* accumulator, at the record's own domain
C5_EncodedRecordIsDecoded ==
    \A i \in 1..Len(added) :
        (/\ added[i][2] \in KnownTypes
         /\ added[i][2] = "address" => added[i][3].v[1].v \in KnownAddressTypes) =>
            LET found == get_domain_records(domain, acc).records
            IN \E j \in 1..Len(found) : found[j] = added[i]

\* C6 as stated: add_domain_record returns normally only for a record of a
\* documented type and, for an address, of a documented address type
C6_UnknownTypeRaises ==
    \A i \in 1..Len(added) :
        /\ added[i][2] \in KnownTypes
        /\ added[i][2] = "address" => added[i][3].v[1].v \in KnownAddressTypes

\* C7 as stated: the caller's value is after the call what it was before
C7_InputUnchanged == Decoded => value = orig

----------------------------------------------------------------------------
(* The records a value stands for, key by key in the documented order *)

\* the entries of key k that yield a record, in the order of the value
EntriesOf(d, k, x) ==
    LET r == ResolvedKey(d, k, x)
    IN IF r = Absent THEN << >> ELSE IF r.t = "list" THEN r.v ELSE << r >>

\* the record of one entry of key k
EntryRecord(d, k, e) ==
    IF k = "ip" THEN Rec(d, "address", AddressData("ip4", e))
    ELSE IF k \in {"ip6", "tor", "i2p", "freenet", "zeronet"}
      THEN Rec(d, "address", AddressData(k, e))
    ELSE IF k = "alias" THEN Rec(d, "cname", e)
    ELSE IF k = "txt"
      THEN IF StartsWith(d, "_tor.")
           THEN Rec(SubSeq(d, 6, Len(d)), "address", AddressData("tor", e))
           ELSE Rec(d, "txt", e)
    ELSE IF k = "tls"
      THEN Rec(Split(d)[2] \o "." \o Split(d)[3], "tls",
               IF e.t = "dict" THEN Get(e, "dane").v[4] ELSE e.v[4])
    ELSE IF k = "import"
      THEN Rec(d, "import",
               IF e.t = "str" THEN JList(<< e, JStr("") >>)
               ELSE IF Len(e.v) = 1 THEN JList(<< e.v[1], JStr("") >>) ELSE e)
    ELSE Rec(d, k, e)

RECURSIVE ExpectedRecords(_, _), ExpectedOfKeys(_, _, _), ExpectedOfMap(_, _, _)
ExpectedOfKey(d, k, x) ==
    IF k = "map"
      THEN IF x.t = "dict" THEN ExpectedOfMap(d, x.v, 1) ELSE << >>
    ELSE IF k = "zeronet" /\ x.t = "dict"
      THEN IF ResolvedKey(d, k, x) = Absent THEN << >>
           ELSE [i \in 1..Len(x.v) |->
                    ZeronetRecord(IF x.v[i].k = "" THEN d ELSE x.v[i].k \o "." \o d, x.v[i].v)]
    ELSE LET es == EntriesOf(d, k, x)
         IN [i \in 1..Len(es) |-> EntryRecord(d, k, es[i])]

\* the children of map in the order of the map; the empty label has none
ExpectedOfMap(d, items, i) ==
    IF i > Len(items) THEN << >>
    ELSE LET child == IF items[i].v.t = "str" THEN D1("ip", items[i].v) ELSE items[i].v
         IN (IF items[i].k = "" \/ child.t # "dict" THEN << >>
             ELSE ExpectedRecords(items[i].k \o "." \o d, child))
            \o ExpectedOfMap(d, items, i + 1)

\* the keys in the documented order AllKeys, whatever their order in v
ExpectedOfKeys(d, v, n) ==
    IF n > Len(AllKeys) THEN << >>
    ELSE (IF Has(v, AllKeys[n]) THEN ExpectedOfKey(d, AllKeys[n], Get(v, AllKeys[n])) ELSE << >>)
         \o ExpectedOfKeys(d, v, n + 1)

ExpectedRecords(d, v) == ExpectedOfKeys(d, v, 1)

\* C8: the records come key by key in the order ip, ip6, tor, i2p, freenet,
\* zeronet, alias, ns, ds, tls, sshfp, txt, srv, import, map whatever the
\* order of the keys in the value; within a key they keep the order of the
\* list; the records of map come after those of the node's own keys
C8_FixedKeyOrder ==
    (Decoded /\ orig.t = "dict") => records = ExpectedRecords(domain, orig)

\* a value whose keys are not in the documented order gave records of both
C8_Witness ==
    /\ Decoded /\ orig.t = "dict" /\ Len(orig.v) = 2
    /\ orig.v[1].k = "map" /\ orig.v[2].k = "ip"
    /\ Len(records) >= 3
    /\ records[1][1] = domain /\ records[Len(records)][1] # domain

----------------------------------------------------------------------------
NonAscii(v) == v.t = "bytes" /\ \E i \in 1..Len(v.v) : v.v[i] > 127
\* the text that is parsed: the str, or the bytes decoded, "" read as "{}"
TextOf(v) ==
    LET x == IF v.t = "bytes" THEN JStr(ChrAll(v.v)) ELSE v
    IN IF x = JStr("") THEN JStr("{}") ELSE x
IsText(v) == v.t = "str" \/ (v.t = "bytes" /\ ~NonAscii(v))
NotJson(v) == IsText(v) /\ ~json_loads(TextOf(v).v).ok
NotObject(v) ==
    \/ IsText(v) /\ json_loads(TextOf(v).v).ok /\ json_loads(TextOf(v).v).v.t # "dict"
    \/ v.t \in {"null", "bool", "int", "list"}

----------------------------------------------------------------------------
MinimizedKeys == {"ip", "ip6", "i2p", "ns", "txt"}

\* the key under which add_domain_record stores an adjusted record, "" if
\* it is not one of the minimized keys
MinimizedKeyOf(a) ==
    IF a.type = "address"
      THEN IF a.data.v[1] = JStr("ip4") THEN "ip"
           ELSE IF a.data.v[1].v \in {"ip6", "i2p"} THEN a.data.v[1].v
           ELSE ""
    ELSE IF a.type \in {"ns", "txt"} THEN a.type
    ELSE ""
PayloadOf(a) == IF a.type = "address" THEN a.data.v[2] ELSE a.data

\* for each accepted record in the order of the calls: its minimized key,
\* the labels of its node and its payload
AddedEntries ==
    [i \in 1..Len(added) |->
        LET a == Adjusted(added[i])
        IN [k |-> MinimizedKeyOf(a), p |-> MapLabels(domain, a.domain), x |-> PayloadOf(a)]]

\* the payloads among es for key k at the node at labels p
PayloadsFrom(es, p, k) ==
    LET q == SelectSeq(es, LAMBDA e : e.k = k /\ e.p = p)
    IN [i \in 1..Len(q) |-> q[i].x]

\* the label paths of all nodes of a value
RECURSIVE Paths(_)
Paths(v) ==
    {<< >>} \cup
    (IF v.t = "dict" /\ Has(v, "map") /\ Get(v, "map").t = "dict"
     THEN UNION {{<< Get(v, "map").v[i].k >> \o q : q \in Paths(Get(v, "map").v[i].v)} :
                    i \in 1..Len(Get(v, "map").v)}
     ELSE {})

\* C10: at every node each of ip, ip6, i2p, ns, txt is absent when nothing
\* was added for it, the bare payload when one record was added, and the
\* list of the payloads in the order of the calls otherwise
C10_MinimizedLists ==
    pc = "encoding" =>
        LET es == AddedEntries
            ps == Paths(acc)
        IN /\ \A i \in 1..Len(es) : es[i].k # "" => es[i].p \in ps
           /\ \A p \in ps :
                 LET node == NodeAt(acc, p)
                 IN \A k \in MinimizedKeys :
                       LET q == PayloadsFrom(es, p, k)
                       IN IF q = << >> THEN ~Has(node, k)
                          ELSE /\ Has(node, k)
                               /\ Get(node, k) = IF Len(q) = 1 THEN q[1] ELSE JList(q)

\* two different payloads were added for one key at one node
C10_Witness ==
    /\ pc = "encoding"
    /\ Has(acc, "ip") /\ Get(acc, "ip") = JList(<< S2, S1 >>)
    /\ Len(added) > 2

----------------------------------------------------------------------------
SingleKeys == {"freenet", "zeronet", "alias"}

\* the key of a single-valued record after adjustment, "" for the others
SingleKeyOf(a) ==
    IF a.type = "address"
      THEN IF a.data.v[1].v \in {"freenet", "zeronet"} THEN a.data.v[1].v ELSE ""
    ELSE IF a.type = "cname" THEN "alias"
    ELSE ""

MultiplicityErrors ==
    {"Multiple Freenet records for one domain", "Multiple ZeroNet records for one domain",
     "Multiple CNAME records for one domain"}

\* for each accepted record in the order of the calls: its single-valued
\* key, the labels of its node and its payload
SingleEntries ==
    [i \in 1..Len(added) |->
        LET a == Adjusted(added[i])
        IN [k |-> SingleKeyOf(a), p |-> MapLabels(domain, a.domain), x |-> PayloadOf(a)]]

\* one call with a single-valued record whose domain passes the base check:
\* it fails with the multiplicity error and leaves the accumulator as it was
\* when the node holds the key, and sets the key to the payload otherwise
C11_Call ==
    LET a == Adjusted(last')
        k == SingleKeyOf(a)
        p == MapLabels(domain, a.domain)
    IN (k # "" /\ EndsWith(a.domain, domain)) =>
          IF p \in Paths(acc) /\ Has(NodeAt(acc, p), k)
          THEN pc' = "failed" /\ err' \in MultiplicityErrors /\ acc' = acc
          ELSE /\ pc' = "encoding"
               /\ p \in Paths(acc')
               /\ Has(NodeAt(acc', p), k)
               /\ Get(NodeAt(acc', p), k) = PayloadOf(a)

\* each single-valued key at each node holds the payload of the first record
\* added for it, and is absent when none was added
C11_First ==
    LET es == SingleEntries
    IN \A p \in Paths(acc) :
          LET node == NodeAt(acc, p)
          IN \A k \in SingleKeys :
                LET q == PayloadsFrom(es, p, k)
                IN IF q = << >> THEN ~Has(node, k)
                   ELSE Has(node, k) /\ Get(node, k) = q[1]

\* C11: a single-valued record (freenet, zeronet, cname) is refused with a
\* multiplicity error, the accumulator staying as it was, when its node
\* holds the key already, and otherwise sets the key to its payload; so
\* each such key holds the payload of the first record added for it
C11_SingleValued == [][C11_Call]_vars /\ []C11_First

\* a second record of a single-valued key, with another payload, was refused
C11_Witness ==
    /\ pc = "failed" /\ err \in MultiplicityErrors
    /\ Len(added) >= 2
    /\ SingleKeyOf(Adjusted(last)) # ""
    /\ LET a == Adjusted(last)
       IN Get(NodeAt(acc, MapLabels(domain, a.domain)), SingleKeyOf(a)) # PayloadOf(a)

----------------------------------------------------------------------------
IsTorRecord(r) == r[2] = "address" /\ r[3].v[1] = JStr("tor")

\* no node of v has the key tor
RECURSIVE NoTorKey(_)
NoTorKey(v) ==
    \/ v.t # "dict"
    \/ /\ ~Has(v, "tor")
       /\ (Has(v, "map") /\ Get(v, "map").t = "dict") =>
             \A i \in 1..Len(Get(v, "map").v) : NoTorKey(Get(v, "map").v[i].v)

\* C12 as stated: a tor address record that add_domain_record accepted is
\* stored under txt (no node gets the key tor), and decoding the accumulator
\* at the base domain returns the record, at its own domain, as a tor address
C12_TorSurvives ==
    /\ NoTorKey(acc)
    /\ \A i \in 1..Len(added) :
          IsTorRecord(added[i]) =>
             LET found == get_domain_records(domain, acc).records
             IN \E j \in 1..Len(found) : found[j] = added[i]

----------------------------------------------------------------------------
\* the key s of an entry [2, 1, 0, s] or {"dane": [2, 1, 0, s]}
TlsKeyOf(x) == IF x.t = "dict" THEN Get(x, "dane").v[4] ELSE x.v[4]

\* C13 as stated, seen through get_domain_records on {"tls": v}: outside
\* the wildcard context there is no record and v stays as it is; in it each
\* entry [2,1,0,s] or {"dane": [2,1,0,s]} of a list v gives the record
\* ["<label2>.<label3>", "tls", s] and every other entry stays in the
\* residual list
C13_TlsWildcardOnly ==
    (Decoded /\ orig.t = "dict" /\ Keys(orig) = {"tls"}) =>
        LET v == Get(orig, "tls")
            parts == Split(domain)
        IN IF ~(Len(parts) = 3 /\ parts[1] = "*")
             THEN records = << >> /\ (v # EmptyList => residual = orig)
           ELSE v.t = "list" =>
                LET good == SelectSeq(v.v, IsTlsEntry)
                    other == SelectSeq(v.v, LAMBDA e : ~IsTlsEntry(e))
                IN /\ records = [i \in 1..Len(good) |->
                                    Rec(parts[2] \o "." \o parts[3], "tls", TlsKeyOf(good[i]))]
                   /\ other # << >> =>
                         Has(residual, "tls") /\ Get(residual, "tls") = JList(other)

----------------------------------------------------------------------------
\* the domain that add_domain_record compares with the base domain
AdjustedDomain(r) ==
    IF r[2] = "address" /\ r[3].v[1] = JStr("tor") THEN "_tor." \o r[1]
    ELSE IF r[2] = "tls" THEN "*." \o r[1]
    ELSE r[1]

\* C18: a call whose adjusted domain does not end with the base domain
\* fails with the base-domain-mismatch error and leaves the accumulator as
\* it was
C18_BaseMismatch ==
    [][~EndsWith(AdjustedDomain(last'), domain) =>
           pc' = "failed" /\ err' = "Base domain mismatch" /\ acc' = acc]_vars

\* a record of another domain was refused on an accumulator that holds records
C18_Witness ==
    /\ pc = "failed" /\ err = "Base domain mismatch"
    /\ ~EndsWith(AdjustedDomain(last), domain)
    /\ Len(added) >= 1 /\ acc # EmptyDict

----------------------------------------------------------------------------
\* C19 as stated: a call that raises leaves the accumulator as it was
C19_FailureLeavesAccumulator == [][pc' = "failed" => acc' = acc]_vars

----------------------------------------------------------------------------
\* C20 as stated: encoding the records of a decoded object, in order, into
\* an empty accumulator over the same domain raises no error
C20_EncodeOfDecodeSucceeds == orig.t = "dict" => pc # "failed"

----------------------------------------------------------------------------
(* C14: what the validator accepts *)

\* the value is the text of a JSON object
IsObjectText(b) == json_loads_bytes(b).exc = "" /\ json_loads_bytes(b).ok /\ json_loads_bytes(b).v.t = "dict"

\* C14: the validator returns normally exactly for an identifier of at most
\* 256 bytes with a value that is empty, or of at most 2048 bytes and the text
\* of a JSON object; every other operation raises
C14_ValidatorAccepts ==
    pc = "validated" =>
        ((err = "") <=>
            /\ Len(name_op.name.v) <= 256
            /\ \/ Len(name_op.value.v) = 0
               \/ Len(name_op.value.v) <= 2048 /\ IsObjectText(name_op.value))

\* an operation at both limits was accepted
C14_Witness ==
    /\ pc = "validated"
    /\ err = ""
    /\ Len(name_op.name.v) = 256
    /\ Len(name_op.value.v) = 2048

----------------------------------------------------------------------------
(* C15: the script of a name operation *)

IsUpdateKind(op) == op.op \in {81, 82}

\* C15 as stated: an operation that the validator rejects fails with the
\* validator's error whatever its kind
C15_ValidatorFirst ==
    pc = "scripted" /\ name_op # Null /\ validate_update_length(name_op) # ""
        => err = validate_update_length(name_op)

\* the hex text of opcode, push(identifier), push(value), OP_2DROP, OP_DROP
ExpectedScript(op) ==
    (IF op.op = 81 THEN "51" ELSE "52") \o push_script(bh2u(op.name))
    \o push_script(bh2u(op.value)) \o "6d75"

\* C15 amended: the kind is looked at first.  No operation gives the empty
\* script; a kind other than Register/Update fails with the
\* unknown-operation error whatever the validator says; a Register/Update
\* that the validator rejects fails with the validator's error; a valid one
\* gives exactly opcode, push(identifier), push(value), 0x6d, 0x75
C15_KindFirst ==
    pc = "scripted" =>
        IF name_op = Null THEN err = "" /\ script = ""
        ELSE IF ~IsUpdateKind(name_op) THEN err = "unknown name op"
        ELSE IF validate_update_length(name_op) # "" THEN err = validate_update_length(name_op)
        ELSE err = "" /\ script = ExpectedScript(name_op)

\* a valid Register operation at the limits was turned into a script
C15_Witness ==
    /\ pc = "scripted"
    /\ err = ""
    /\ name_op # Null
    /\ name_op.op = 81
    /\ Len(name_op.value.v) = 2048
    /\ Len(script) = 2 * (1 + 3 + 256 + 3 + 2048 + 2)

----------------------------------------------------------------------------
(* C16: the three outcomes of decoding a script *)

\* the first five elements are REGISTER or UPDATE, two pushes, 2DROP, DROP
IsNameScript(els) ==
    /\ Len(els) >= 5
    /\ els[1][1] \in {81, 82}
    /\ els[2][2] # Null
    /\ els[3][2] # Null
    /\ els[4][1] = 109
    /\ els[5][1] = 117

\* C16: an undecodable script gives (None, None); a script that starts with
\* the five elements of a name script gives the name operation of its two
\* pushes and the elements after the fifth; every other script gives None
\* and the whole list of its elements
C16_ThreeOutcomes ==
    pc = "split" =>
        \E decoded \in {script_GetOp(tx_script)} :
            IF decoded = Null
              THEN split.name_op = Null /\ split.address_scriptPubKey = Null
            ELSE IF IsNameScript(decoded.v)
              THEN /\ split.name_op = [op |-> decoded.v[1][1], name |-> decoded.v[2][2],
                                       value |-> decoded.v[3][2]]
                   /\ split.address_scriptPubKey.t = "list"
                   /\ Len(split.address_scriptPubKey.v) = Len(decoded.v) - 5
                   /\ \A i \in 1..Len(split.address_scriptPubKey.v) :
                         split.address_scriptPubKey.v[i] = decoded.v[i + 5]
            ELSE split.name_op = Null /\ split.address_scriptPubKey = decoded

\* a name script with a payment script behind it was split
C16_Witness ==
    /\ pc = "split"
    /\ split.name_op # Null
    /\ split.address_scriptPubKey # Null
    /\ Len(split.address_scriptPubKey.v) > 1

----------------------------------------------------------------------------
(* C17: the namespace of an identifier *)

LowerCase ==
    {"a", "b", "c", "d", "e", "f", "g", "h", "i", "j", "k", "l", "m",
     "n", "o", "p", "q", "r", "s", "t", "u", "v", "w", "x", "y", "z"}
DecimalDigits == {"0", "1", "2", "3", "4", "5", "6", "7", "8", "9"}

\* [a-z0-9]+(-[a-z0-9]+)* up to "$", read from position i on; after is what
\* was read last: "", "char" or "hyphen"
RECURSIVE LabelFrom(_, _, _)
LabelFrom(s, i, after) ==
    IF i > Len(s) THEN after = "char"
    ELSE IF Ch(s, i) \in LowerCase \cup DecimalDigits THEN LabelFrom(s, i + 1, "char")
    ELSE IF Ch(s, i) = "-" THEN after = "char" /\ LabelFrom(s, i + 1, "hyphen")
    ELSE Ch(s, i) = "\n" /\ i = Len(s) /\ after = "char"

MatchesLabel(s, idn) == LabelFrom(s, 1, "") \/ (idn /\ StartsWith(s, "xn--") /\ LabelFrom(s, 5, ""))

RECURSIVE DigitsFrom(_, _)
DigitsFrom(s, i) ==
    IF i > Len(s) THEN i > 1
    ELSE IF Ch(s, i) \in DecimalDigits THEN DigitsFrom(s, i + 1)
    ELSE Ch(s, i) = "\n" /\ i = Len(s) /\ i > 1

IsAscii(b) == \A i \in 1..Len(b.v) : b.v[i] < 128
HasSlash(s) == \E i \in 1..Len(s) : Ch(s, i) = "/"
\* the text before the first "/" and the text after it
NamespaceText(s) == SubSeq(s, 1, (CHOOSE i \in 1..Len(s) : Ch(s, i) = "/" /\ ~HasSlash(SubSeq(s, 1, i - 1))) - 1)
LabelText(s) == SubSeq(s, Len(NamespaceText(s)) + 2, Len(s))

Unclassifiable(b) ==
    \/ ~IsAscii(b)
    \/ ~HasSlash(ChrAll(b.v))
    \/ /\ NamespaceText(ChrAll(b.v)) = "d"
       /\ \/ Len(LabelText(ChrAll(b.v))) = 0
          \/ Len(LabelText(ChrAll(b.v))) > 63
          \/ ~MatchesLabel(LabelText(ChrAll(b.v)), TRUE)
          \/ DigitsFrom(LabelText(ChrAll(b.v)), 1)
    \/ /\ NamespaceText(ChrAll(b.v)) = "id"
       /\ \/ Len(LabelText(ChrAll(b.v))) = 0
          \/ ~MatchesLabel(LabelText(ChrAll(b.v)), FALSE)

====
